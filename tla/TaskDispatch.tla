---------------------------- MODULE TaskDispatch ----------------------------
(***************************************************************************)
(* The scheduler's task life cycle (executor/scheduler.go) together with   *)
(* the state it shares with the QUIC message handlers                      *)
(* (grpc/raw_quic_handler.go) and the state manager (state/manager.go).    *)
(*                                                                         *)
(* StartTask queues a task on its agent and starts a runTask goroutine;    *)
(* idle agents are handed the head of their queue under tasksMu (the       *)
(* dispatcher); the agent's reports are handled by one goroutine per       *)
(* stream; runTask wakes on the completion channel or on cancellation and  *)
(* cleans up.  A step is one critical section of tasksMu, m.mu or          *)
(* taskCompleteMu, or one channel operation: everything that the locks let *)
(* interleave, interleaves here.  Resource calls are ResourceHolds'.       *)
(*                                                                         *)
(* The agents (inbox, running) are external to the repository; they are    *)
(* modelled from the messages the server sends and handles.                *)
(***************************************************************************)
EXTENDS ResourceHolds, Integers, Sequences, FiniteSetsExt, SequencesExt

CONSTANTS Named,        \* Named[t]: the resource instances t requires by name
          Pool,         \* Pool[t]: instances of the resource type t requires, or {}
          Cancellable,  \* tasks a user may cancel
          Pausable,     \* tasks a user may pause and resume
          Events,       \* Events[t]: resources t's behaviour tree takes and returns itself
          Conditional,  \* tasks with preconditions, which may be unmet
          Outcomes,     \* what an agent may report of a task that ran to its end
          Ordered,      \* TRUE: an agent reports on one stream, so in order
          Prompt,       \* TRUE: runTask gets to run before the agent can answer
          Punctual,     \* TRUE: messages take less than taskDispatchLease
          Lossy,        \* TRUE: an agent may drop a start_task it received
          CatalogFails, \* TRUE: the database may fail to list the resources
          MaxDispatchAttempts, \* maxDispatchAttempts
          Endless,      \* FALSE: a bound of one heartbeat per agent
          MaxDrops      \* bound: connections lost in a behaviour

ASSUME DispatchAssumption ==
    /\ Named \in [Tasks -> SUBSET Resources]
    /\ Pool \in [Tasks -> SUBSET Resources]
    /\ Cancellable \subseteq Tasks /\ Pausable \subseteq Tasks
    /\ Events \in [Tasks -> SUBSET Resources] /\ Conditional \subseteq Tasks
    /\ Outcomes \subseteq {"completed", "failed"}
    /\ Ordered \in BOOLEAN /\ Prompt \in BOOLEAN /\ Punctual \in BOOLEAN
    /\ Lossy \in BOOLEAN /\ CatalogFails \in BOOLEAN /\ Endless \in BOOLEAN
    /\ MaxDispatchAttempts \in Nat \ {0}
    /\ MaxDrops \in Nat

Terminal == {"completed", "failed", "cancelled"}
Statuses == Terminal \cup {"none", "pending", "running", "paused"}

VARIABLES
    tasks,      \* keys of s.tasks
    status,     \* RunningTask.Status
    paused,     \* tasks with isPaused
    dbStatus,   \* the Task row's status
    bindings,   \* RunningTask.Bindings (its values)
    queue,      \* s.taskQueues
    leased,     \* tasks with a DispatchLeaseUntil
    retrying,   \* tasks with a DispatchRetryAt and a DispatchFirstError
    attempts,   \* DispatchAttempts, saturating at MaxDispatchAttempts
    sent,       \* tasks with DispatchSent
    robot,      \* IsExecuting and CurrentTaskID of every robot
    dispatcher, \* the holder of tasksMu inside dispatchNextQueuedTask
    visit,      \* agents a DispatchIdleAgents call has still to look at
    ready,      \* agents found idle, dispatchNextQueuedTask not yet entered
    runner,     \* program counter of each task's runTask goroutine
    chan,       \* its completion channel: absent, empty, a result, closed
    ctxDone,    \* tasks whose context is cancelled
    canceller,  \* program counter of the CancelTask call for each task
    updates,    \* task updates in flight or being handled
    beat,       \* the heartbeat of each agent in flight or being handled
    connected,  \* agents with a registered connection
    drops,      \* connections lost so far
    inbox,      \* messages on their way to the agents
    running     \* what each agent is really executing

taskVars  == <<tasks, status, paused, bindings>>
leaseVars == <<leased, retrying, attempts, sent>>
callVars  == <<visit, ready>>
runVars   == <<runner, chan, ctxDone, canceller>>
agentVars == <<connected, drops, inbox, running>>
vars == <<resourceVars, taskVars, dbStatus, queue, leaseVars, robot, dispatcher,
          callVars, runVars, updates, beat, agentVars>>

Idle == [executing |-> FALSE, task |-> NoTask]
NoDispatch == [pc |-> "idle", agent |-> NoAgent, task |-> NoTask, todo |-> {}]
NoBeat == [pc |-> "none", task |-> NoTask]
LastBeat == [pc |-> "last", task |-> NoTask]

Init ==
    /\ ResourceInit
    /\ tasks = {}
    /\ status = [t \in Tasks |-> "none"]
    /\ paused = {}
    /\ dbStatus = [t \in Tasks |-> "none"]
    /\ bindings = [t \in Tasks |-> {}]
    /\ queue = [a \in Agents |-> <<>>]
    /\ leased = {}
    /\ retrying = {}
    /\ attempts = [t \in Tasks |-> 0]
    /\ sent = {}
    /\ robot = [a \in Agents |-> Idle]
    /\ dispatcher = NoDispatch
    /\ visit = {}
    /\ ready = {}
    /\ runner = [t \in Tasks |-> "none"]
    /\ chan = [t \in Tasks |-> "none"]
    /\ ctxDone = {}
    /\ canceller = [t \in Tasks |-> "none"]
    /\ updates = {}
    /\ beat = [a \in Agents |-> NoBeat]
    /\ connected = Agents
    /\ drops = 0
    /\ inbox = {}
    /\ running = [a \in Agents |-> {}]

-----------------------------------------------------------------------------
(* Shared helpers.                                                         *)

TasksMuFree == dispatcher.pc = "idle"

\* The agents DispatchIdleAgents is about to look at.
QueuedAgents(q) == {a \in Agents : q[a] # <<>>}

Queued(t) == t \in Range(queue[AgentOf[t]])

\* removeQueuedTaskLocked: the queue after t's entry is cut out of it.
Dequeue(t) ==
    LET q == queue[AgentOf[t]]
        i == CHOOSE i \in DOMAIN q : q[i] = t
    IN  IF Queued(t)
        THEN [queue EXCEPT ![AgentOf[t]] =
                 [j \in 1..(Len(q) - 1) |-> IF j < i THEN q[j] ELSE q[j + 1]]]
        ELSE queue

\* CompleteExecution: the agent is idle, whatever task it was executing.
CompleteExecution(a) == robot' = [robot EXCEPT ![a] = Idle]

-----------------------------------------------------------------------------
(* StartTask, from the point where the task is stored.                     *)

StartTask(t) ==
    /\ TasksMuFree
    /\ runner[t] = "none"
    /\ tasks' = tasks \cup {t}
    /\ status' = [status EXCEPT ![t] = "pending"]
    /\ dbStatus' = [dbStatus EXCEPT ![t] = "pending"]
    /\ queue' = [queue EXCEPT ![AgentOf[t]] = Append(@, t)]
    /\ runner' = [runner EXCEPT ![t] = "spawned"]
    /\ visit' = visit \cup QueuedAgents(queue')
    /\ UNCHANGED <<resourceVars, paused, bindings, leaseVars, robot, dispatcher, ready,
                   chan, ctxDone, canceller, updates, beat, agentVars>>

\* One round of DispatchIdleAgents' loop: the robot is looked at, without tasksMu.
VisitAgent(a) ==
    /\ a \in visit
    /\ visit' = visit \ {a}
    /\ ready' = IF robot[a] = Idle THEN ready \cup {a} ELSE ready
    /\ UNCHANGED <<resourceVars, taskVars, dbStatus, queue, leaseVars, robot, dispatcher,
                   runVars, updates, beat, agentVars>>

-----------------------------------------------------------------------------
(* dispatchNextQueuedTask.  From DispatchHead to DispatchDone or           *)
(* DispatchError the dispatcher holds tasksMu.                             *)

StartMsg(t)  == [kind |-> "start", task |-> t]
CancelMsg(t) == [kind |-> "cancel", task |-> t]

\* Whether a deadline has passed is a choice: the model has no clock.  With
\* Punctual messages, a lease outlasts the start_task and the answer to it.
MayExpire(t) ==
    Punctual => StartMsg(t) \notin inbox /\ \A u \in updates : u.task # t

\* Finished and forgotten tasks are dropped from the front of the queue.
Dead(t) == t \notin tasks \/ status[t] \in Terminal

\* Agent a's first live task, if any, waits, has its lease expired, or is
\* dispatched.
DispatchHead(a) ==
    \E dead \in 0..Len(queue[a]) :
        LET q == SubSeq(queue[a], dead + 1, Len(queue[a]))
            Go(pc) == [pc |-> pc, agent |-> a, task |-> Head(q), todo |-> {}]
        IN  /\ \/ TasksMuFree /\ a \in ready
               \/ dispatcher.pc = "loop" /\ dispatcher.agent = a
            /\ \A i \in 1..dead : Dead(queue[a][i])
            /\ q # <<>> => ~Dead(Head(q))
            /\ ready' = IF TasksMuFree THEN ready \ {a} ELSE ready
            /\ queue' = [queue EXCEPT ![a] = q]
            /\ dispatcher' \in
                 IF q = <<>> THEN {NoDispatch}
                 ELSE (IF Head(q) \in leased \cup retrying THEN {NoDispatch} ELSE {})
                      \cup (IF Head(q) \notin leased THEN {Go("resolve")}
                            ELSE IF MayExpire(Head(q)) THEN {Go("expireExecution")} ELSE {})
            /\ UNCHANGED <<resourceVars, taskVars, dbStatus, leaseVars, robot, visit, runVars,
                           updates, beat, agentVars>>

\* An expired lease: forget the first dispatch before the next one.
ExpireExecution ==
    /\ dispatcher.pc = "expireExecution"
    /\ CompleteExecution(dispatcher.agent)
    /\ dispatcher' = [dispatcher EXCEPT !.pc = "expireRelease"]
    /\ UNCHANGED <<resourceVars, taskVars, dbStatus, queue, leaseVars, callVars, runVars,
                   updates, beat, agentVars>>

\* Mutant: the resources of the first dispatch are not released.
ExpireKeepsHolds ==
    /\ dispatcher.pc = "expireRelease"
    /\ dispatcher' = [dispatcher EXCEPT !.pc = "expireUnregister"]
    /\ UNCHANGED <<resourceVars, taskVars, dbStatus, queue, leaseVars, robot, callVars,
                   runVars, updates, beat, agentVars>>

ExpireRelease ==
    /\ dispatcher.pc = "expireRelease"
    /\ ReleaseTaskResources(dispatcher.task, dispatcher.agent)
    /\ dispatcher' = [dispatcher EXCEPT !.pc = "expireUnregister"]
    /\ UNCHANGED <<taskVars, dbStatus, queue, leaseVars, robot, callVars, runVars, updates,
                   beat, agentVars>>

ExpireUnregister ==
    LET t == dispatcher.task
    IN  /\ dispatcher.pc = "expireUnregister"
        /\ UnregisterTaskRuntime(t)
        /\ bindings' = [bindings EXCEPT ![t] = {}]
        /\ leased' = leased \ {t}
        /\ status' = [status EXCEPT ![t] = "pending"]
        /\ dispatcher' = [dispatcher EXCEPT !.pc = "resolve"]
        /\ UNCHANGED <<tasks, paused, dbStatus, queue, retrying, attempts, sent, robot,
                       callVars, runVars, updates, beat, agentVars>>

\* reserveTaskResourcesForDispatch: named instances are taken as they are, a
\* type is resolved to one of its instances that nobody holds (the code: the
\* first in the catalog).  The order in which the tokens are resolved is left open.
Bindings(t) ==
    IF Pool[t] = {} THEN {Named[t]}
    ELSE {Named[t] \cup {r} : r \in {x \in Pool[t] : ~Held(x)}}

Resolve ==
    LET t == dispatcher.task
    IN  /\ dispatcher.pc = "resolve"
        /\ RegisterTaskRuntime(t)
        /\ \E B \in Bindings(t) :
              /\ bindings' = [bindings EXCEPT ![t] = B]
              /\ dispatcher' = [dispatcher EXCEPT !.todo = B,
                                    !.pc = IF B = {} THEN "start" ELSE "acquire"]
        /\ UNCHANGED <<tasks, status, paused, dbStatus, queue, leaseVars, robot, callVars, runVars,
                       updates, beat, agentVars>>

\* Nothing to do yet counts as a dispatch without error.
DispatchDone ==
    /\ dispatcher' = NoDispatch
    /\ retrying' = retrying \ {dispatcher.task}

NoFreeInstance ==
    /\ dispatcher.pc = "resolve"
    /\ Bindings(dispatcher.task) = {}
    /\ DispatchDone
    /\ UNCHANGED <<resourceVars, taskVars, dbStatus, queue, leased, attempts, sent, robot,
                   callVars, runVars, updates, beat, agentVars>>

\* loadRuntimeResourceCatalog fails: an error that no attempt was counted for.
CatalogError ==
    /\ CatalogFails
    /\ dispatcher.pc = "resolve"
    /\ Named[dispatcher.task] \cup Pool[dispatcher.task] # {}
    /\ dispatcher' = [dispatcher EXCEPT !.pc = "error"]
    /\ UNCHANGED <<resourceVars, taskVars, dbStatus, queue, leaseVars, robot, callVars,
                   runVars, updates, beat, agentVars>>

\* Mutant: a refused acquire does not end the dispatch.
AcquireAnyway(r) ==
    /\ dispatcher.pc = "acquire"
    /\ r \in dispatcher.todo
    /\ TryAcquirePlanResource(dispatcher.task, r)
    /\ dispatcher' = [dispatcher EXCEPT
           !.todo = @ \ {r},
           !.pc = IF dispatcher.todo = {r} THEN "start" ELSE "acquire"]
    /\ UNCHANGED <<taskVars, dbStatus, queue, leaseVars, robot, callVars, runVars, updates,
                   beat, agentVars>>

Acquire(r) ==
    /\ dispatcher.pc = "acquire"
    /\ r \in dispatcher.todo
    /\ TryAcquirePlanResource(dispatcher.task, r)
    /\ dispatcher' = [dispatcher EXCEPT
           !.todo = @ \ {r},
           !.pc = IF ~CanAcquire(dispatcher.task, r) THEN "undoRelease"
                  ELSE IF dispatcher.todo = {r} THEN "start" ELSE "acquire"]
    /\ UNCHANGED <<taskVars, dbStatus, queue, leaseVars, robot, callVars, runVars, updates,
                   beat, agentVars>>

\* TryStartExecution, with which the lease starts; the message is on its way
\* or, with no connection to the agent, it is not.
TryStartExecution ==
    LET t == dispatcher.task
        a == dispatcher.agent
    IN  /\ dispatcher.pc = "start"
        /\ ~robot[a].executing
        /\ robot' = [robot EXCEPT ![a] = [executing |-> TRUE, task |-> t]]
        /\ leased' = leased \cup {t}
        /\ attempts' = [attempts EXCEPT ![t] = IF @ < MaxDispatchAttempts THEN @ + 1 ELSE @]
        /\ dbStatus' = [dbStatus EXCEPT ![t] = "pending"]

SendStartTask ==
    LET t == dispatcher.task
    IN  /\ TryStartExecution
        /\ dispatcher.agent \in connected
        /\ inbox' = inbox \cup {StartMsg(t)}
        /\ sent' = sent \cup {t}
        /\ DispatchDone
        /\ UNCHANGED <<resourceVars, taskVars, queue, callVars, runVars, updates, beat,
                       connected, drops, running>>

SendFails ==
    /\ TryStartExecution
    /\ dispatcher.agent \notin connected
    /\ dispatcher' = [dispatcher EXCEPT !.pc = "failRelease"]
    /\ UNCHANGED <<resourceVars, taskVars, queue, retrying, sent, callVars,
                   runVars, updates, beat, agentVars>>

\* The agent is executing, or a precondition does not hold: try later.
StartRefused ==
    /\ dispatcher.pc = "start"
    /\ robot[dispatcher.agent].executing \/ dispatcher.task \in Conditional
    /\ dispatcher' = [dispatcher EXCEPT !.pc = "undoRelease"]
    /\ UNCHANGED <<resourceVars, taskVars, dbStatus, queue, leaseVars, robot, callVars,
                   runVars, updates, beat, agentVars>>

\* Mutant: the reservation is forgotten, not given back.
UndoKeepsHolds ==
    /\ dispatcher.pc \in {"undoRelease", "failRelease"}
    /\ dispatcher' = [dispatcher EXCEPT
           !.pc = IF @ = "undoRelease" THEN "undoUnregister" ELSE "failUnregister"]
    /\ UNCHANGED <<resourceVars, taskVars, dbStatus, queue, leaseVars, robot, callVars,
                   runVars, updates, beat, agentVars>>

\* Undoing the reservation, after a refusal (undo...) and after a failed send
\* (fail...).
UndoRelease ==
    /\ dispatcher.pc \in {"undoRelease", "failRelease"}
    /\ ReleaseTaskResources(dispatcher.task, dispatcher.agent)
    /\ dispatcher' = [dispatcher EXCEPT
           !.pc = IF @ = "undoRelease" THEN "undoUnregister" ELSE "failUnregister"]
    /\ UNCHANGED <<taskVars, dbStatus, queue, leaseVars, robot, callVars, runVars, updates,
                   beat, agentVars>>

UndoUnregister ==
    /\ dispatcher.pc = "undoUnregister"
    /\ UnregisterTaskRuntime(dispatcher.task)
    /\ bindings' = [bindings EXCEPT ![dispatcher.task] = {}]
    /\ DispatchDone
    /\ UNCHANGED <<tasks, status, paused, dbStatus, queue, leased, attempts, sent, robot, callVars,
                   runVars, updates, beat, agentVars>>

FailUnregister ==
    /\ dispatcher.pc = "failUnregister"
    /\ UnregisterTaskRuntime(dispatcher.task)
    /\ bindings' = [bindings EXCEPT ![dispatcher.task] = {}]
    /\ dispatcher' = [dispatcher EXCEPT !.pc = "failExecution"]
    /\ UNCHANGED <<tasks, status, paused, dbStatus, queue, leaseVars, robot, callVars, runVars,
                   updates, beat, agentVars>>

FailExecution ==
    LET t == dispatcher.task
    IN  /\ dispatcher.pc = "failExecution"
        /\ CompleteExecution(dispatcher.agent)
        /\ leased' = leased \ {t}
        /\ sent' = sent \ {t}
        /\ dispatcher' = [dispatcher EXCEPT !.pc = "error"]
        /\ UNCHANGED <<resourceVars, taskVars, dbStatus, queue, retrying, attempts,
                       callVars, runVars, updates, beat, agentVars>>

\* A goroutine that is about to deliver a result to runTask.
Notification(t, st) ==
    [task |-> t, state |-> st, pc |-> "lookup", freed |-> FALSE, by |-> "dispatcher"]

\* dispatchNextQueuedTask's error branch: back off or, after enough attempts
\* and errors for long enough (not the first one), give up.
DispatchError ==
    LET t == dispatcher.task
    IN  /\ dispatcher.pc = "error"
        /\ retrying' = retrying \cup {t}
        /\ \/ /\ dispatcher' = NoDispatch
              /\ UNCHANGED <<status, queue, updates>>
           \/ /\ attempts[t] = MaxDispatchAttempts
              /\ t \in retrying
              /\ status' = [status EXCEPT ![t] = "failed"]
              /\ queue' = [queue EXCEPT ![dispatcher.agent] = Tail(@)]
              /\ updates' = updates \cup {Notification(t, "failed")}
              /\ dispatcher' = [dispatcher EXCEPT !.pc = "loop"]
        /\ UNCHANGED <<resourceVars, tasks, paused, bindings, dbStatus, leased, attempts, sent,
                       robot, callVars, runVars, beat, agentVars>>

-----------------------------------------------------------------------------
(* runTask.                                                                *)

RunnerMoves(t, from, to) ==
    /\ runner[t] = from
    /\ runner' = [runner EXCEPT ![t] = to]

RunnerRegister(t) ==
    /\ RunnerMoves(t, "spawned", "waiting")
    /\ chan' = [chan EXCEPT ![t] = "empty"]
    /\ UNCHANGED <<resourceVars, taskVars, dbStatus, queue, leaseVars, robot, dispatcher,
                   callVars, ctxDone, canceller, updates, beat, agentVars>>

\* Mutant: runTask returns without recording how the task ended.
RunnerWakesSilently(t, st) ==
    /\ RunnerMoves(t, "waiting", "execution")
    /\ chan' = [chan EXCEPT ![t] = "closed"]
    /\ UNCHANGED <<resourceVars, taskVars, dbStatus, queue, leaseVars, robot,
                   dispatcher, callVars, ctxDone, canceller, updates, beat, agentVars>>

\* The select; the deferred clean-up begins with the completion channel.
RunnerWakes(t, st) ==
    /\ RunnerMoves(t, "waiting", "execution")
    /\ status' = [status EXCEPT ![t] = st]
    /\ chan' = [chan EXCEPT ![t] = "closed"]
    /\ UNCHANGED <<resourceVars, tasks, paused, bindings, dbStatus, queue, leaseVars, robot,
                   dispatcher, callVars, ctxDone, canceller, updates, beat, agentVars>>

RunnerResult(t) == chan[t] \in Terminal /\ RunnerWakes(t, chan[t])

\* Mutant: the task's context also has a time limit.
RunnerTimesOut(t) == RunnerWakes(t, "cancelled")

RunnerCancelled(t) == t \in ctxDone /\ RunnerWakes(t, "cancelled")

\* Unconditional: also when the agent is executing another task by now.
RunnerExecution(t) ==
    /\ RunnerMoves(t, "execution", "release")
    /\ CompleteExecution(AgentOf[t])
    /\ UNCHANGED <<resourceVars, taskVars, dbStatus, queue, leaseVars, dispatcher, callVars,
                   chan, ctxDone, canceller, updates, beat, agentVars>>

RunnerRelease(t) ==
    /\ RunnerMoves(t, "release", "unregister")
    /\ ReleaseTaskResources(t, AgentOf[t])
    /\ UNCHANGED <<taskVars, dbStatus, queue, leaseVars, robot, dispatcher, callVars, chan,
                   ctxDone, canceller, updates, beat, agentVars>>

\* UnregisterTaskRuntime, and the row gets the status the task has by now.
RunnerUnregister(t) ==
    /\ RunnerMoves(t, "unregister", "remove")
    /\ UnregisterTaskRuntime(t)
    /\ dbStatus' = [dbStatus EXCEPT ![t] = status[t]]
    /\ UNCHANGED <<taskVars, queue, leaseVars, robot, dispatcher, callVars, chan, ctxDone,
                   canceller, updates, beat, agentVars>>

\* Nobody reads the dispatch fields of a task that is no longer in s.tasks.
RunnerRemove(t) ==
    /\ TasksMuFree
    /\ RunnerMoves(t, "remove", "done")
    /\ tasks' = tasks \ {t}
    /\ paused' = paused \ {t}
    /\ leased' = leased \ {t}
    /\ retrying' = retrying \ {t}
    /\ attempts' = [attempts EXCEPT ![t] = 0]
    /\ queue' = Dequeue(t)
    /\ visit' = visit \cup QueuedAgents(queue')
    /\ UNCHANGED <<resourceVars, status, bindings, dbStatus, sent, robot, dispatcher, ready,
                   chan, ctxDone, canceller, updates, beat, agentVars>>

Runner(t) ==
    \/ RunnerRegister(t)
    \/ RunnerResult(t)
    \/ RunnerCancelled(t)
    \/ RunnerExecution(t)
    \/ RunnerRelease(t)
    \/ RunnerUnregister(t)
    \/ RunnerRemove(t)

-----------------------------------------------------------------------------
(* CancelTask, PauseTask and ResumeTask, called by a user.                 *)

\* The lookup and CancelFunc.
CancelTask(t) ==
    /\ TasksMuFree
    /\ t \in Cancellable \cap tasks
    /\ canceller[t] = "none"
    /\ ctxDone' = ctxDone \cup {t}
    /\ canceller' = [canceller EXCEPT ![t] = "dequeue"]
    /\ UNCHANGED <<resourceVars, taskVars, dbStatus, queue, leaseVars, robot, dispatcher,
                   callVars, runner, chan, updates, beat, agentVars>>

\* Mutants: removeQueuedTask without tasksMu, or only for a task that was
\* sent to the agent.
CancelDequeueUnlocked(t) ==
    /\ canceller[t] = "dequeue"
    /\ canceller' = [canceller EXCEPT ![t] = "returned"]
    /\ queue' = Dequeue(t)
    /\ inbox' = IF t \in sent /\ AgentOf[t] \in connected
                THEN inbox \cup {CancelMsg(t)} ELSE inbox
    /\ UNCHANGED <<resourceVars, taskVars, dbStatus, leaseVars, robot, dispatcher, callVars,
                   runner, chan, ctxDone, updates, beat, connected, drops, running>>

CancelDequeueIfSent(t) ==
    /\ TasksMuFree
    /\ canceller[t] = "dequeue"
    /\ canceller' = [canceller EXCEPT ![t] = "returned"]
    /\ queue' = IF t \in sent THEN Dequeue(t) ELSE queue
    /\ inbox' = IF t \in sent /\ AgentOf[t] \in connected
                THEN inbox \cup {CancelMsg(t)} ELSE inbox
    /\ UNCHANGED <<resourceVars, taskVars, dbStatus, leaseVars, robot, dispatcher, callVars,
                   runner, chan, ctxDone, updates, beat, connected, drops, running>>

\* removeQueuedTask and, when a start_task was sent, the cancel command.
CancelDequeue(t) ==
    /\ TasksMuFree
    /\ canceller[t] = "dequeue"
    /\ canceller' = [canceller EXCEPT ![t] = "returned"]
    /\ queue' = Dequeue(t)
    /\ inbox' = IF t \in sent /\ AgentOf[t] \in connected
                THEN inbox \cup {CancelMsg(t)} ELSE inbox
    /\ UNCHANGED <<resourceVars, taskVars, dbStatus, leaseVars, robot, dispatcher, callVars,
                   runner, chan, ctxDone, updates, beat, connected, drops, running>>

\* Neither looks at what became of the task since it was found in s.tasks.
PauseTask(t) ==
    /\ t \in Pausable \cap tasks
    /\ paused' = paused \cup {t}
    /\ status' = [status EXCEPT ![t] = "paused"]
    /\ UNCHANGED <<resourceVars, tasks, bindings, dbStatus, queue, leaseVars, robot,
                   dispatcher, callVars, runVars, updates, beat, agentVars>>

ResumeTask(t) ==
    /\ t \in paused \cap tasks
    /\ paused' = paused \ {t}
    /\ status' = [status EXCEPT ![t] = "running"]
    /\ UNCHANGED <<resourceVars, tasks, bindings, dbStatus, queue, leaseVars, robot,
                   dispatcher, callVars, runVars, updates, beat, agentVars>>

User ==
    \/ \E t \in Tasks : StartTask(t)
    \/ \E t \in Tasks : CancelTask(t)
    \/ \E t \in Tasks : PauseTask(t)
    \/ \E t \in Tasks : ResumeTask(t)

-----------------------------------------------------------------------------
(* handleTaskStateUpdate: one goroutine per message in flight, from "net"  *)
(* to the end of the handler.                                              *)

Report(t, st) == [task |-> t, state |-> st, pc |-> "net", freed |-> FALSE, by |-> "agent"]

\* Handler u moves on; a handler that is through looks for idle agents when
\* it freed a resource.
UpdateMoves(u, to) ==
    updates' = (updates \ {u}) \cup {[u EXCEPT !.pc = to]}

UpdateEnds(u) ==
    /\ updates' = updates \ {u}
    /\ visit' = IF u.freed THEN visit \cup QueuedAgents(queue) ELSE visit

\* UpdateTaskStatus and UpdateRobotExecution: the last report to arrive wins.
UpdateStore(u) ==
    /\ u.pc = "net"
    /\ dbStatus' = [dbStatus EXCEPT ![u.task] = u.state]
    /\ robot' = [robot EXCEPT ![AgentOf[u.task]] =
                    [executing |-> u.state = "running", task |-> u.task]]
    /\ UpdateMoves(u, "ack")
    /\ UNCHANGED <<resourceVars, taskVars, queue, leaseVars, dispatcher, callVars, runVars,
                   beat, agentVars>>

\* Mutant: an acknowledged task stays in the queue.
AcknowledgeKeepsQueued(t) ==
    /\ queue' = queue
    /\ leased' = IF t \in tasks /\ Queued(t)
                 THEN leased \ {t} ELSE leased

\* acknowledgeQueuedTask.
Acknowledge(t) ==
    /\ queue' = Dequeue(t)
    /\ leased' = IF t \in tasks /\ Queued(t)
                 THEN leased \ {t} ELSE leased

\* Mutants: the handler goes on whatever the state, or never goes on.
UpdateAckAnyState(u) ==
    /\ u.pc = "ack"
    /\ TasksMuFree
    /\ Acknowledge(u.task)
    /\ UpdateMoves(u, "release")
    /\ UNCHANGED <<resourceVars, taskVars, dbStatus, retrying, attempts, sent,
                   robot, dispatcher, callVars, runVars, beat, agentVars>>

UpdateAckReturns(u) ==
    /\ u.pc = "ack"
    /\ TasksMuFree
    /\ Acknowledge(u.task)
    /\ updates' = updates \ {u}
    /\ UNCHANGED <<resourceVars, taskVars, dbStatus, retrying, attempts, sent,
                   robot, dispatcher, callVars, runVars, beat, agentVars>>

UpdateAck(u) ==
    /\ u.pc = "ack"
    /\ TasksMuFree
    /\ Acknowledge(u.task)
    /\ IF u.state \in Terminal THEN UpdateMoves(u, "release") ELSE updates' = updates \ {u}
    /\ UNCHANGED <<resourceVars, taskVars, dbStatus, retrying, attempts, sent,
                   robot, dispatcher, callVars, runVars, beat, agentVars>>

\* Mutants: the scope is dropped before it is released, or the holds are
\* cleared without the state manager.
UpdateReleaseLate(u) ==
    /\ u.pc = "release"
    /\ UnregisterTaskRuntime(u.task)
    /\ UpdateMoves(u, "unregister")
    /\ UNCHANGED <<taskVars, dbStatus, queue, leaseVars, robot, dispatcher, callVars,
                   runVars, beat, agentVars>>

UpdateReleaseDirectly(u) ==
    /\ u.pc = "release"
    /\ resourceHolds' = [r \in Resources |-> IF resourceHolds[r].task = u.task THEN NoHold
                                             ELSE resourceHolds[r]]
    /\ UpdateMoves(u, "unregister")
    /\ UNCHANGED <<planResources, scopeVars, planVars, taskVars, dbStatus, queue, leaseVars,
                   robot, dispatcher, callVars, runVars, beat, agentVars>>

UpdateRelease(u) ==
    /\ u.pc = "release"
    /\ ReleaseTaskResources(u.task, AgentOf[u.task])
    /\ updates' = (updates \ {u}) \cup {[u EXCEPT !.pc = "unregister",
                      !.freed = Releasable(u.task, AgentOf[u.task]) # {}]}
    /\ UNCHANGED <<taskVars, dbStatus, queue, leaseVars, robot, dispatcher, callVars,
                   runVars, beat, agentVars>>

UpdateUnregister(u) ==
    /\ u.pc = "unregister"
    /\ UnregisterTaskRuntime(u.task)
    /\ UpdateMoves(u, "complete")
    /\ UNCHANGED <<taskVars, dbStatus, queue, leaseVars, robot, dispatcher, callVars,
                   runVars, beat, agentVars>>

UpdateComplete(u) ==
    /\ u.pc = "complete"
    /\ CompleteExecution(AgentOf[u.task])
    /\ UpdateMoves(u, "lookup")
    /\ UNCHANGED <<resourceVars, taskVars, dbStatus, queue, leaseVars, dispatcher, callVars,
                   runVars, beat, agentVars>>

\* NotifyTaskComplete finds the channel under taskCompleteMu ...
NotifyLookup(u) ==
    /\ u.pc = "lookup"
    /\ IF chan[u.task] \in {"none", "closed"}
       THEN UpdateEnds(u)
       ELSE UpdateMoves(u, "send") /\ visit' = visit
    /\ UNCHANGED <<resourceVars, taskVars, dbStatus, queue, leaseVars, robot, dispatcher,
                   ready, runVars, beat, agentVars>>

\* ... and sends without it: a full channel drops the result.  On a channel
\* closed meanwhile the send panics (NoSendOnClosed), so no step is left.
NotifySend(u) ==
    /\ u.pc = "send"
    /\ chan[u.task] # "closed"
    /\ chan' = [chan EXCEPT ![u.task] = IF @ = "empty" THEN u.state ELSE @]
    /\ UpdateEnds(u)
    /\ UNCHANGED <<resourceVars, taskVars, dbStatus, queue, leaseVars, robot, dispatcher,
                   ready, runner, ctxDone, canceller, beat, agentVars>>

HandleUpdate(u) ==
    \/ UpdateStore(u)
    \/ UpdateAck(u)
    \/ UpdateRelease(u)
    \/ UpdateUnregister(u)
    \/ UpdateComplete(u)
    \/ NotifyLookup(u)
    \/ NotifySend(u)

-----------------------------------------------------------------------------
(* handleHeartbeat, and the resource events that reports carry.            *)

\* TryUpdateRobotExecutionFromHeartbeat: ignored while the server believes
\* that the agent executes a task.
BeatStore(a) ==
    /\ beat[a].pc = "net"
    /\ robot' = IF robot[a].executing /\ robot[a].task # NoTask THEN robot
                ELSE [robot EXCEPT ![a] = [executing |-> beat[a].task # NoTask,
                                           task |-> beat[a].task]]
    /\ beat' = [beat EXCEPT ![a].pc = "observe"]
    /\ UNCHANGED <<resourceVars, taskVars, dbStatus, queue, leaseVars, dispatcher, callVars,
                   runVars, updates, agentVars>>

\* ObserveAgentExecution.
BeatObserve(a) ==
    /\ beat[a].pc = "observe"
    /\ \/ /\ beat[a].task # NoTask
          /\ TasksMuFree
          /\ Acknowledge(beat[a].task)
          /\ ready' = ready
       \/ /\ beat[a].task = NoTask
          /\ ready' = IF robot[a].executing /\ robot[a].task # NoTask THEN ready
                      ELSE ready \cup {a}
          /\ UNCHANGED <<queue, leased>>
    /\ beat' = [beat EXCEPT ![a] = IF Endless THEN NoBeat ELSE LastBeat]
    /\ UNCHANGED <<resourceVars, taskVars, dbStatus, retrying, attempts, sent,
                   robot, dispatcher, visit, runVars, updates, agentVars>>

\* On one stream a report is sent, and read, after the handler of the one
\* before it returned.
MayReport(a) ==
    Ordered => /\ beat[a] \in {NoBeat, LastBeat}
               /\ \A u \in updates : u.by = "agent" => AgentOf[u.task] # a

\* applyResourceEvents: an acquire or a release event that the agent reports,
\* or reported, for a task.  Idle agents are looked for when it was accepted.
ResourceEvent(t, r) ==
    LET a == AgentOf[t]
        accepted == t \in taskRuntimeScopes /\ (~Held(r) \/ OwnedBy(r, t, a))
    IN  /\ r \in Events[t]
        /\ t \in sent
        /\ Ordered => t \in running[a] /\ MayReport(a)
        /\ HandleAcquireEvent(t, a, r) \/ HandleReleaseEvent(t, a, r)
        /\ visit' = IF accepted THEN visit \cup QueuedAgents(queue) ELSE visit
        /\ UNCHANGED <<taskVars, dbStatus, queue, leaseVars, robot, dispatcher, ready,
                       runVars, updates, beat, agentVars>>

-----------------------------------------------------------------------------
(* The agents: external to the repository.                                 *)

\* A goroutine is scheduled faster than a message makes the round trip.
MayAnswer(t) == Prompt => runner[t] # "spawned"

AgentStart(t) ==
    LET a == AgentOf[t]
    IN  /\ StartMsg(t) \in inbox
        /\ MayReport(a)
        /\ MayAnswer(t)
        /\ inbox' = inbox \ {StartMsg(t)}
        /\ running' = [running EXCEPT ![a] = @ \cup {t}]
        /\ updates' = updates \cup {Report(t, "running")}
        /\ UNCHANGED <<resourceVars, taskVars, dbStatus, queue, leaseVars, robot, dispatcher,
                       callVars, runVars, beat, connected, drops>>

\* The agent cannot load the behaviour tree, say, and never answers.
AgentDrops(t) ==
    /\ Lossy
    /\ StartMsg(t) \in inbox
    /\ inbox' = inbox \ {StartMsg(t)}
    /\ UNCHANGED <<resourceVars, taskVars, dbStatus, queue, leaseVars, robot, dispatcher,
                   callVars, runVars, updates, beat, connected, drops, running>>

AgentEnds(t, st) ==
    /\ running' = [running EXCEPT ![AgentOf[t]] = @ \ {t}]
    /\ updates' = updates \cup {Report(t, st)}

AgentFinish(t) ==
    /\ t \in running[AgentOf[t]]
    /\ MayReport(AgentOf[t])
    /\ \E st \in Outcomes : AgentEnds(t, st)
    /\ UNCHANGED <<resourceVars, taskVars, dbStatus, queue, leaseVars, robot, dispatcher,
                   callVars, runVars, beat, connected, drops, inbox>>

AgentCancel(t) ==
    LET a == AgentOf[t]
    IN  /\ CancelMsg(t) \in inbox
        /\ Ordered => StartMsg(t) \notin inbox
        /\ inbox' = inbox \ {CancelMsg(t)}
        /\ \/ t \in running[a] /\ MayReport(a) /\ AgentEnds(t, "cancelled")
           \/ t \notin running[a] /\ UNCHANGED <<running, updates>>
        /\ UNCHANGED <<resourceVars, taskVars, dbStatus, queue, leaseVars, robot, dispatcher,
                       callVars, runVars, beat, connected, drops>>

AgentHeartbeat(a) ==
    /\ a \in connected
    /\ beat[a] = NoBeat
    /\ MayReport(a)
    /\ \E t \in IF running[a] = {} THEN {NoTask} ELSE running[a] :
          beat' = [beat EXCEPT ![a] = [pc |-> "net", task |-> t]]
    /\ UNCHANGED <<resourceVars, taskVars, dbStatus, queue, leaseVars, robot, dispatcher,
                   callVars, runVars, updates, agentVars>>

\* handleDisconnect: what was on its way to the agent is lost, and so are the
\* reports it had not yet delivered.
Disconnect(a) ==
    /\ drops < MaxDrops
    /\ a \in connected
    /\ connected' = connected \ {a}
    /\ drops' = drops + 1
    /\ inbox' = {m \in inbox : AgentOf[m.task] # a}
    /\ updates' = {u \in updates : u.pc = "net" => AgentOf[u.task] # a}
    /\ beat' = [beat EXCEPT ![a] = IF @.pc = "net" THEN NoBeat ELSE @]
    /\ UNCHANGED <<resourceVars, taskVars, dbStatus, queue, leaseVars, robot, dispatcher,
                   callVars, runVars, running>>

\* handleRegisterAgent: RegisterRobot makes a fresh, idle robot.
Reconnect(a) ==
    /\ a \notin connected
    /\ connected' = connected \cup {a}
    /\ robot' = [robot EXCEPT ![a] = Idle]
    /\ UNCHANGED <<resourceVars, taskVars, dbStatus, queue, leaseVars, dispatcher, callVars,
                   runVars, updates, beat, drops, inbox, running>>

-----------------------------------------------------------------------------
DispatchStep ==
    \/ ExpireExecution \/ ExpireRelease \/ ExpireUnregister
    \/ Resolve \/ NoFreeInstance \/ CatalogError
    \/ \E r \in Resources : Acquire(r)
    \/ StartRefused \/ SendStartTask \/ SendFails
    \/ UndoRelease \/ UndoUnregister \/ FailUnregister \/ FailExecution
    \/ DispatchError

Agent ==
    \/ \E t \in Tasks : AgentStart(t)
    \/ \E t \in Tasks : AgentDrops(t)
    \/ \E t \in Tasks : AgentFinish(t)
    \/ \E t \in Tasks : AgentCancel(t)
    \/ \E a \in Agents : AgentHeartbeat(a)
    \/ \E a \in Agents : Disconnect(a)
    \/ \E a \in Agents : Reconnect(a)

Next ==
    \/ User
    \/ \E t \in Tasks : CancelDequeue(t)
    \/ \E a \in Agents : VisitAgent(a)
    \/ \E a \in Agents : DispatchHead(a)
    \/ DispatchStep
    \/ \E t \in Tasks : Runner(t)
    \/ \E u \in updates : HandleUpdate(u)
    \/ \E a \in Agents : BeatStore(a) \/ BeatObserve(a)
    \/ \E t \in Tasks, r \in Resources : ResourceEvent(t, r)
    \/ Agent

Spec == Init /\ [][Next]_vars

\* Goroutines run and agents work on what they were sent.  Users and
\* heartbeats owe nothing.
Fairness ==
    /\ WF_vars(DispatchStep)
    /\ \A t \in Tasks : WF_vars(Runner(t)) /\ WF_vars(CancelDequeue(t))
    /\ \A t \in Tasks : WF_vars(\E u \in updates : u.task = t /\ HandleUpdate(u))
    /\ \A a \in Agents : WF_vars(VisitAgent(a)) /\ WF_vars(DispatchHead(a))
    /\ \A a \in Agents : WF_vars(BeatStore(a) \/ BeatObserve(a))
    /\ \A t \in Tasks : WF_vars(AgentStart(t)) /\ WF_vars(AgentFinish(t))

FairSpec == Spec /\ Fairness

\* With endless heartbeats the others compete for the locks and the stream:
\* Go's mutexes starve nobody, and an agent sends its heartbeats and its
\* reports in turn.
StronglyFairSpec ==
    /\ FairSpec
    /\ \A t \in Tasks : SF_vars(Runner(t))
    /\ \A t \in Tasks : SF_vars(\E u \in updates : u.task = t /\ HandleUpdate(u))
    /\ \A a \in Agents : SF_vars(DispatchHead(a)) /\ SF_vars(BeatStore(a) \/ BeatObserve(a))
    /\ \A t \in Tasks : SF_vars(AgentStart(t)) /\ SF_vars(AgentFinish(t))
    /\ \A a \in Agents : SF_vars(AgentHeartbeat(a))

-----------------------------------------------------------------------------
(* Properties.                                                             *)

DispatcherPcs ==
    {"idle", "loop", "expireExecution", "expireRelease", "expireUnregister", "resolve",
     "acquire", "start", "undoRelease", "undoUnregister", "failRelease",
     "failUnregister", "failExecution", "error"}

Dispatchers == [pc : DispatcherPcs, agent : Agents \cup {NoAgent},
                task : Tasks \cup {NoTask}, todo : SUBSET Resources]

Updates == [task : Tasks, state : Terminal \cup {"running"},
            pc : {"net", "ack", "release", "unregister", "complete", "lookup", "send"},
            freed : BOOLEAN, by : {"agent", "dispatcher"}]

\* Type correctness of the scheduler's state and of the messages in flight.
DispatchTypeOK ==
    /\ tasks \in SUBSET Tasks /\ paused \in SUBSET Tasks
    /\ status \in [Tasks -> Statuses] /\ dbStatus \in [Tasks -> Statuses]
    /\ bindings \in [Tasks -> SUBSET Resources]
    /\ queue \in [Agents -> Seq(Tasks)]
    /\ leased \in SUBSET Tasks /\ retrying \in SUBSET Tasks /\ sent \in SUBSET Tasks
    /\ attempts \in [Tasks -> 0..MaxDispatchAttempts]
    /\ robot \in [Agents -> [executing : BOOLEAN, task : Tasks \cup {NoTask}]]
    /\ dispatcher \in Dispatchers
    /\ visit \in SUBSET Agents /\ ready \in SUBSET Agents
    /\ runner \in [Tasks -> {"none", "spawned", "waiting", "execution", "release", "unregister",
                             "remove", "done"}]
    /\ chan \in [Tasks -> {"none", "empty", "closed"} \cup Terminal]
    /\ ctxDone \in SUBSET Tasks
    /\ canceller \in [Tasks -> {"none", "dequeue", "returned"}]
    /\ updates \in SUBSET Updates
    /\ beat \in [Agents -> [pc : {"none", "net", "observe", "last"}, task : Tasks \cup {NoTask}]]
    /\ connected \in SUBSET Agents /\ drops \in 0..MaxDrops
    /\ inbox \in SUBSET [kind : {"start", "cancel"}, task : Tasks]
    /\ running \in [Agents -> SUBSET Tasks]

\* A queue holds tasks of its own agent, each of them once.
QueueSound ==
    \A a \in Agents : \A i, j \in DOMAIN queue[a] :
        /\ AgentOf[queue[a][i]] = a
        /\ queue[a][i] = queue[a][j] => i = j

\* While dispatchNextQueuedTask dispatches a task, the task stays at the head
\* of its agent's queue.
HeadDispatched ==
    /\ dispatcher.pc # "idle" => dispatcher.agent \in Agents
    /\ dispatcher.pc \notin {"idle", "loop"} =>
           /\ queue[dispatcher.agent] # <<>>
           /\ dispatcher.task = Head(queue[dispatcher.agent])

\* A task that was not started yet has left no trace ...
NotYetStarted ==
    \A t \in Tasks : runner[t] = "none" =>
        t \notin tasks /\ canceller[t] = "none" /\ ~Queued(t)

\* ... and one that CancelTask returned for is in no queue.
CancelledNotQueued == \A t \in Tasks : canceller[t] = "returned" => ~Queued(t)

\* Only the handler of a terminal report gets past acknowledgeQueuedTask.
TerminalUpdates == \A u \in updates : u.pc \notin {"net", "ack"} => u.state \in Terminal

\* The invariant behind NoStartAfterCancel: what tasksMu protects (queue,
\* tasks and the dispatcher) stays consistent although runTask, the handlers
\* and the users work beside the dispatcher without the lock.
QueueInv ==
    /\ DispatchTypeOK
    /\ QueueSound
    /\ HeadDispatched
    /\ NotYetStarted
    /\ CancelledNotQueued
    /\ TerminalUpdates

\* The messages on their way to agent a that will start a task.
Starting(a) == {t \in Tasks : AgentOf[t] = a /\ StartMsg(t) \in inbox}

Sends(t) == StartMsg(t) \in inbox' \ inbox

\* "Only hands out the next queued task when the agent is confirmed idle"
\* (scheduler.go:345): a start_task is sent to an agent that executes
\* nothing and has no other start_task on its way.
AgentConfirmedIdle ==
    [][\A t \in Tasks : Sends(t) =>
          running[AgentOf[t]] = {} /\ Starting(AgentOf[t]) = {}]_vars

\* A task is started once: dispatchNextQueuedTask never sends a second
\* start_task for a task whose first one was delivered.
StartedOnce == [][\A t \in Tasks : Sends(t) => t \notin sent]_vars

\* Once CancelTask has taken a task off the queue no start_task for it
\* follows, although a dispatch may have been under way: otherwise the agent
\* would run a task that the cancel command it got before does not stop.
NoStartAfterCancel ==
    [][\A t \in Tasks : canceller[t] = "returned" => ~Sends(t)]_vars

\* A task whose runTask goroutine waits is never forgotten.  While messages
\* are not lost, it is queued, on its way to the agent, executing there, or a
\* report or a result that ends the wait is under way.
NoStrandedTask ==
    drops = 0 /\ ~Lossy =>
        \A t \in Tasks : runner[t] = "waiting" /\ t \notin ctxDone =>
            \/ Queued(t)
            \/ t \in Starting(AgentOf[t]) \cup running[AgentOf[t]]
            \/ \E u \in updates : u.task = t /\ u.state \in Terminal
            \/ chan[t] \in Terminal

\* While an agent executes a task, and from the moment it is told to, the
\* resources bound to the task are held by it in resourceHolds.  Two tasks
\* that use one resource therefore never run at the same time.
HeldWhileRunning ==
    \A a \in Agents : \A t \in Starting(a) \cup running[a] : \A r \in bindings[t] :
        OwnedBy(r, t, a)

\* "ReleaseTaskResources releases all resources currently held by a runtime
\* task" (manager.go:2689): when runTask is through and nobody is inside the
\* dispatcher, the task holds nothing.
NoLeakedHold ==
    \A t \in Tasks : runner[t] = "done" /\ TasksMuFree =>
        \A r \in Resources : resourceHolds[r].task # t

\* A task that waits in the queue holds nothing and has neither a scope nor
\* bindings: every way out of a dispatch that did not start the task, at
\* whichever of its steps, undoes what the steps before it did.
QueuedHoldsNothing ==
    \A t \in Tasks : TasksMuFree /\ Queued(t) /\ t \notin leased =>
        /\ \A r \in Resources : resourceHolds[r].task # t
        /\ t \notin taskRuntimeScopes /\ bindings[t] = {}

\* When runTask is through, the Task row that the plan executor polls shows
\* how the task ended.
FinishedRowFinal ==
    \A t \in Tasks : runner[t] = "done" => dbStatus[t] = status[t] /\ status[t] \in Terminal

\* NotifyTaskComplete never sends on a closed channel, on which a Go program
\* panics; its default branch logs "channel full or closed" (scheduler.go:339).
NoSendOnClosed ==
    \A u \in updates : u.pc = "send" => chan[u.task] # "closed"

\* However the goroutines interleave, what they do to the resource maps is a
\* behaviour of ResourceHolds, whose invariants therefore hold here.
DispatchUsesResources == ResourceSpec

\* Every task that StartTask accepts ends: it waits for the tasks queued before
\* it and for its resources, and then it runs.
EveryTaskEnds == \A t \in Tasks : t \in tasks ~> t \notin tasks

\* "Dispatch lease expired for task %s on agent %s, retrying"
\* (scheduler.go:453): a dispatch that the agent never acknowledges does not
\* stay the agent's current task for ever.
LostStartRetried == \A t \in Tasks : t \in leased ~> t \notin leased
=============================================================================
