# Verification of the fleet supervision system

The repository is a supervision server for a fleet of robots: a Go server
(`central_server_go`) that plans, queues, dispatches and follows tasks, one
agent process per robot that executes behaviour trees (not in the
repository), and a web console (`central_server/frontend`, React) in which tasks are
drawn, planned, assigned, started and watched. The modules model the server's own logic
where goroutines, messages and failures meet, and the console's logic where renders,
effects, polls and late answers do. Go file names below are relative to
`src/central_server_go/internal/`, TypeScript names to `src/central_server/frontend/src/`.

## 1. Inventory

| Component | State it keeps | Operations | What makes it correct |
|---|---|---|---|
| Resource bookkeeping (`state/manager.go`) | `resourceHolds`, `planResources`, `taskRuntimeScopes`, `planningStates` under `m.mu` | `TryAcquirePlanResource`, `HandleTaskResourceEvent`, `ReleaseTaskResources`, `ReleaseAllPlanResources`, `Register/UnregisterTaskRuntime`, `Init/ClearPlanningState` | one holder per resource; the indexes never go stale; the planner's occupancy variables follow the holds |
| Task scheduler (`executor/scheduler.go`) | `tasks`, `taskQueues` under `tasksMu`; `taskComplete` under `taskCompleteMu`; the fields of a `RunningTask` under no lock | `StartTask`, `DispatchIdleAgents`, `dispatchNextQueuedTask`, `ObserveAgentExecution`, `NotifyTaskComplete`, `runTask`, `CancelTask`, `PauseTask`, `ResumeTask` | a task runs once, on an idle agent, with its resources; it is never forgotten; a cancelled task is not started; whatever it took is given back |
| Runtime binding (`executor/runtime_resources.go`) | none | tokens to resource instances | a type resolves to a free instance |
| QUIC handlers (`grpc/raw_quic_handler.go`) | `connections`, pending commands, one goroutine per stream | task updates, heartbeats, resource events, deploy responses, sends | reports are applied to the task they belong to |
| Agent session (`grpc/raw_quic_handler.go`, `state/manager.go`) | the connection and the robot entry of every agent | register, replace, disconnect | one live connection per agent; what the server believes of a reconnected agent |
| Plan executor (`executor/plan_executor.go`) | `executions`, step statuses | run groups of steps, poll tasks, fail, cancel | steps in order; a cancelled plan leaves nothing running |
| Graph deployment (`executor/scheduler.go`, `state/graph_cache.go`) | deployed versions per agent | deploy, acknowledge, invalidate | an agent runs the version the server believes it has |
| Zones and multi-agent start (`state/manager.go`, `executor/scheduler.go`) | `zones` with expiry | reserve all or none, release, expire | no zone has two holders; all agents start or none |
| State overrides, reset guard, start conditions (`state/manager.go`, `state/state_registry.go`) | overrides by source, guard windows | push, clear, reset, evaluate | clearing restores the reported state; a condition list means what it says |
| Behaviour tree edit lock (`api/behavior_tree_lock.go`, `pages/ActionGraph/index.tsx`, `contexts/WebSocketContext.tsx`) | lock fields of a database row; per tab edit mode, lock status, heartbeat interval | acquire, heartbeat, release, force, status, expiry, lock events | a tab that edits without the lock finds out |
| Task editor, opening and saving (`pages/ActionGraph/index.tsx`) | selection, query cache, canvas, last saved and last loaded state | open, load, edit, save, finish, create, delete | a task is saved under its own id; edits are not reloaded away |
| Task editor, graph (`pages/ActionGraph/`) | nodes, edges, retry blocks | drop, connect, delete, compile to steps, load from steps | transitions lead somewhere; a stored task loads as it was saved |
| Task editor, parameters (`pages/ActionGraph/nodes/components/`, `components/TelemetryPanel.tsx`) | params, field sources, robots, telemetry | type, capture, bind, switch robots | what is captured comes from the robot and frame shown |
| Task editor, task sets (`pages/ActionGraph/index.tsx`) | tasks, assignments, files | create, rename, delete, assign, export, import | an import restores tasks and assignments |
| Planning task dialog (`pages/ActionGraph/index.tsx`) | distributor, references, tokens | choose, add, delete, filter, save | nothing valid is filtered away |
| Distributor library (`pages/PDDL/index.tsx`) | states, resources, types, merge policies | add, delete, generate, export, import | an imported profile is the exported one |
| Planning page (`pages/PDDL/index.tsx`) | scope, drafts in `localStorage`, plan, execution, session | select, solve, execute, start and stop realtime, poll | goals stay in their scope; what is over does not come back |
| Realtime rows (`pages/PDDL/index.tsx`) | executions, allocations | poll, refresh, merge | rows say what the server said |
| Agent page (`pages/AgentDashboard/index.tsx`) | filter, selection, caches, calls under way | select, start, deploy, pause, cancel, reset, remove, delete | commands go to what is selected; only deployed trees are started |
| PDDL planner (`pddl/`) | none | ground, search, validate | a plan found is a plan |
| Realtime PDDL (`api/realtime_pddl.go`) | sessions and their loops | start, replan, stop | one loop per session; a stop is final |

Components interact by direct calls and by callbacks set in
`cmd/server/main.go:117-125`: a task update or heartbeat calls
`ObserveAgentExecution`, a terminal update `NotifyTaskComplete`, a freed resource
`DispatchIdleAgents`. The plan executor calls `StartTask` and then polls the
task and its database row. REST handlers call `StartTask`, `CancelTask`,
`PauseTask`, `ResumeTask`. The repository has no Go tests.

What is hard here: the fields of a running task and the execution state of its
robot are written by four kinds of goroutines (dispatcher, `runTask`, stream
handlers, REST handlers) that share no common lock; every clean-up consists of
several critical sections; connections drop, start messages get lost and leases
run out in the middle of all that. In the console nothing runs in parallel, but every
`await`, query and interval splits a handler: the rest of it uses the values of
the render that started it, effects run in the order of their declaration on
the values of one render, and answers come in any order after the user has gone on.
`PROJECT.json` lists these hazards by line.

The remaining parts (REST CRUD, websocket, Neo4j repository, graph converters,
caches, transport, configuration, generated code, display pages of the console, ROS 2 test nodes,
scripts) are input/output or conversions without shared state of their own; they
are listed in `PROJECT.json` as not modelled. So is the step execution inside
`scheduler.go` (`executeStep` and what it calls), which nothing reaches any more.

## 2. Modules

| Module | Content |
|---|---|
| `ResourceLock` | abstract: each resource is free or owned by one task; a step lets one task grab one resource, lets go resources of one task, or frees resources of one plan |
| `ResourceHolds` | the resource section of the state manager; one action per method, each a critical section of `m.mu`; the callers may arrive in any order |
| `ResourceHoldsProofs` | its theorems |
| `TaskDispatch` | extends `ResourceHolds`: scheduler, `runTask`, handlers of updates and heartbeats, connections, and the agents as environment |
| `TaskDispatchProofs` | its theorems: on the queues; that it uses the resources as `ResourceHolds` says; on the life of one task, what it holds and that it is not forgotten; on one dispatch, one execution and one result under a reliable network |
| `EditLock` | the edit lock: tabs, requests, lock events, the server's handlers |
| `EditLockProofs` | its theorems |
| `EditorCanvas` | which task is on the canvas, and what is saved where |
| `EditorCanvasProofs` | its theorems |
| `Sublists` | sequences taken apart by their positions: what the pages do with `filter`, `flatMap`, `find` and `sort` |
| `SublistsProofs` | lemmas about them, and the induction they rest on |
| `TaskGraph` | the graph on the canvas, its compilation into steps and back |
| `TaskGraphProofs` | lemmas about compiling and loading, and the invariant of the canvas, which `AuthoringProofs` uses |
| `NodeParameters` | parameters of an action node: editors, captures, sources |
| `TaskSets` | the list of tasks, assignments, export and import |
| `PlanningTask` | the dialog that configures a task for planning |
| `DistributorProfile` | states and resources of a task distributor, profiles |
| `PddlPage` | the planning page: scope, drafts, plan, execution, session |
| `TaskTimeline` | the rows of the realtime monitor |
| `AgentPage` | the agent page |
| `Authoring`, `Operations` | the screens that define tasks, and those that run robots, in one specification each; a behaviour stays on the screen it begins with, since the screens share only what the server keeps, which the Init of each chooses |
| `AuthoringProofs` | theorems on the screens that define tasks: canvas, planning dialog, task sets, library of distributors, telemetry, and the types of all of them |
| `OperationsProofs` | theorems on the screens that run robots, and the types of all of them |
| `MCResourceHolds`, `MCTaskDispatch`, `MCEditLock`, `MCAuthoring`, `MCOperations` | model values and constant functions for TLC |

### ResourceHolds

`resourceHolds[r]` is the hold of `r` or `NoHold`, Go's zero value. A hold keeps the
plan, the agent and the runtime task, which are what the code compares.
`planResources[p]` is the plan's index (an absent map and an empty one behave alike),
`taskRuntimeScopes` and `heldResources` are the scopes, `occupied[p]` the resources
whose `occupied` variable is true in the plan's planning state. `RecordHold` and
`DropHolds` are the updates that the acquiring and the releasing methods share.
`ReleasePlanResource` has no caller and is left out. It is assumed that a
planning problem declares the occupancy variables of its resources, initially
false; `UpdatePlanningState`, which applies the effects of finished steps,
belongs to the plan executor.

### TaskDispatch

A step is one critical section of `tasksMu`, `m.mu` or `taskCompleteMu`, or one channel
operation; everything the locks allow to interleave does. The processes:

* **Users** call `StartTask` (from where it stores the row and the task), `CancelTask`
  (context first, then `CancelDequeue`: queue entry and cancel command),
  `PauseTask`, `ResumeTask`.
* **DispatchIdleAgents** is `visit`: the agents of a call that are still to be looked
  at. `VisitAgent` reads the robot without `tasksMu` and moves the agent to `ready`.
* **The dispatcher** is whoever holds `tasksMu` inside `dispatchNextQueuedTask`:
  `DispatchHead` drops dead tasks and looks at retry time and lease;
  `Expire...` undoes an expired dispatch; `Resolve` and `Acquire` are
  `reserveTaskResourcesForDispatch`; `SendStartTask`, `SendFails`, `StartRefused`
  are `dispatchQueuedTaskLocked`; `Undo...` and `Fail...` its ways back;
  `DispatchError` backs off or gives the task up.
* **runTask** is `runner[t]`: register the channel, wait, then the deferred clean-up
  in its order (channel, execution state, resources, scope and row, task).
* **Handlers of task updates** are the records of `updates` with a program counter, from
  `net` (in flight) over the calls of `handleTaskStateUpdate` to `NotifyTaskComplete`'s lookup and send.
  A result the dispatcher announces (`go s.NotifyTaskComplete`) starts at the lookup.
* **Heartbeats** are `beat[a]`: `BeatStore` is `TryUpdateRobotExecutionFromHeartbeat`,
  `BeatObserve` is `ObserveAgentExecution`.
* **Agents** (external) start, drop, finish and cancel what they are sent and report it.
  `running[a]` is what an agent really executes; the server only ever sees `robot[a]`.

Abstractions: only `running` and terminal reports are modelled. The database write and
the robot update of one report are one step, and so are the unregister and the
row write of `runTask`, and the snapshot of the holds and the registration of the
scope in `Resolve`: in each case no other step in between reads what the first
half wrote in a way that the remaining interleavings do not also show. `bindings` is set
in `Resolve` instead of after the last acquire; only the holder of `tasksMu` reads it before that, and it is
emptied whenever the dispatch is abandoned. Zones and the content
of preconditions are the choice `Conditional`. There is no clock: a lease or a retry
time has passed or has not, as TLC chooses. A send on a stale connection is
`Disconnect` followed by `SendFails`; a connection that is replaced is `Disconnect`
followed by `Reconnect`. Once a send on a closed channel has panicked the
model lets the other goroutines go on, which only adds behaviours.

The environment is described by constants: `Ordered` (an agent's reports are handled one
after the other, as on one stream), `Prompt` (a new `runTask` goroutine runs before a network round
trip is over), `Punctual` (messages take less than `taskDispatchLease`, 20 s), `Lossy`
(an agent may lose a start), `CatalogFails`, `Conditional`, `Cancellable`, `Pausable`, `Events`.
Bounds: `MaxDispatchAttempts` (attempts saturate there, as only the comparison matters),
`MaxDrops` connections lost, and with `Endless = FALSE` one heartbeat per agent.

### EditLock

A request in `net` carries what the handler decided on the row it read (`Decision`): an answer, or `"read"` while its write is still to come.
`HandlerWrite` writes the row as the handler saw it, so two acquires that read before
either wrote both succeed. `Answer` applies the callback of the page (`Acquired`, `LockLost`, `Released`,
`ForceUnlocked`, `fetchLockStatus`) whatever has changed since the request was sent. `events[s]` is the WebSocket
queue of a tab; `onclose` loses it. `beat[s]` is the tree of the heartbeat interval, which outlives a change of
the selected task. Expiry is a choice: a lock that is not refreshed may have run out. A page that is reloaded (`Remount`) loses its
answers, but a handler that has read the row and not yet written goes on (`"orphan"`). Trees are not deleted here; a tab whose
selection became none because its task was deleted, for which `fetchLockStatus` shows the lock as free
(`index.tsx:2247`), is left out: nobody can ask for the lock of a row that is gone.

### EditorCanvas

A canvas is the tree its content was made for and the edit that made it. `Effects` runs the clear, load and
mark effects in the order of the code after each step that changes what they depend on. `row`,
`cache`, `fetch` are the server, react-query's data and a refetch under way; `job` is a save
that waits for its answer. Lock calls write the row too (`LockWrites`), as the repository stores every column.
Another tab's edits are the body with the highest edit number.

### TaskGraph, NodeParameters, TaskSets, PlanningTask, DistributorProfile

`TaskGraph` keeps nodes and edges as the lists of React Flow. `convertGraphToSteps` and
`convertActionGraphToGraph` are operators; the canvas starts from a stored task that is empty, written by another program,
or saved by the editor. Labels are reduced to the words that `inferOutcome` looks for. The server's normalisation of a stored
tree (`behavior_tree_normalize.go`) changes nothing in what the editor sends and is left out. A record stands for the id of an
edge; only two transitions of one stored step that leave the same handle for the same node share a record and have two ids in the code.

`NodeParameters` abstracts each value to its origin: typed, zero, or live from a robot and between two frames. The
search through the transforms is written as reachability (`Reached`, `hasAncestorFrame`).

`TaskSets` and `DistributorProfile` make each request of an import one step and let it fail, while the user
and others write. History variables `clean`, `touched` and `lastImport` tell an undisturbed import from the others;
the properties speak of undisturbed ones, and failures only take promises away. What a task required when an import began is kept in the
history field `before`, by kind and name, because the ids that it is written in die with the rows: `ImportFaithful` compares the new requirement with that and not with what
the handler computes.

`PlanningTask` keeps the references of a planning task as pairs of a list and a variable. `promise` is
what the user has configured and the distributor still declares. A save without a distributor leaves the stored one: `undefined` is not sent
and the server keeps what it has (`templates.go:282`).

### PddlPage, TaskTimeline, AgentPage

`PddlPage` computes each handler to the end: `Round` is one render with its effects (`RunEffects`), `Settled` four of them, after which
nothing changes. `memo` is what `buildCurrentDraft` closes over. The history flag `skipLeft`
records that one of the two refs that keep the selection's effect from clearing what was just restored spared more than that:
`skipNextSelectionResetRef` outlived the render it was set for (a profile imported over the very selection it names), or
`restoredSelectionKeyRef` still had the key of an earlier restore and a task that was fetched late moved the page to that
key's distributor (`KeySpares`). The second was found by the proof: `GoalsStayInScope` with the first exception alone holds in every
behaviour of three operations of the user and fails after seven.

`TaskTimeline` has the server's executions as far as the page is told of them (external to the console, from
`executor/plan_executor.go` and `api/realtime_pddl.go`), the polls, and the pure merge of steps and plan into rows. `TimelineSound` compares a block with the statuses
the answers report of its task (`Told`); the `"pending"` that the page gives each planned task is no report, and the one case in which it hides one is named (`Hidden`).

`AgentPage` makes each query and mutation a step of its own; one robot per agent, with the agent's id, is what the server creates.

## 3. Runs

| Run | Instance | Checks | States |
|---|---|---|---|
| `resource_holds` | 3 tasks, 2 agents, 2 resources, 2 plans | `ResourceTypeOK`, `PlanIndexSound`, `ScopeSound`, `OccupancyMirrorsHolds`, `ImplementsLock` | 8 224 |
| `dispatch_faults` | 1 task, 1 resource; lost and late messages, 2 lost connections, catalog errors, pause | `DispatchTypeOK`, `QueuedHoldsNothing`, `NoLeakedHold`, `DispatchUsesResources` | 304 579 |
| `dispatch_cancel` | 2 tasks on 1 agent, one of them cancellable, leases may expire early | `NoStrandedTask`, `QueueInv`, `NoStartAfterCancel` | 1 361 839 |
| `dispatch_shared` | 2 tasks on 2 agents, 2 resources (named, from a pool, by events), fair | `HeldWhileRunning`, `FinishedRowFinal`, `NoSendOnClosed`, `StartedOnce`, `EveryTaskEnds` | 154 335 |
| `edit_lock` | 2 tabs, 1 tree, 2 requests in flight, 1 event queued per tab; tab `a` makes every request, `b` acquires and refreshes | `TypeOK`, `EditingWatched`, `OwnMeansEditing`, `StaleEditorStopped` | 183 914 |
| `editor_canvas` | 2 trees, 2 edits, 2 writes, 2 changes of the selection, another user who saves and deletes | `TypeOK`, `NoCrossTreeSave`, `SelectionValid`, `ReloadNeedsWrite` | 1 979 439 |
| `authoring` | 4 node ids, 3 edits of a graph, 4 stored tasks; 2 distributors, 8 ids; 2 tasks, 2 agents and an unknown one; 5 goal types, 3 kinds of telemetry | `TypeOK`, `SavedTransitionsResolve`, `PortsStaySingle`, `RoundTrip`, `ImportFaithful`, `SavedAsConfigured`, `TaskSetRestored`, `CaptureSound` | 608 821 |
| `operations` | 2 agents, 2 trees, 2 distributors (symmetric), 2 tasks, 3 steps of users and fleet; 2 executions, 2 polls | `TypeOK`, `GoalsStayInScope`, `NoGhostExecution`, `SelectionCoherent`, `StartVouched`, `TimelineSound`, `NoGhostHolds` | 1 044 946 |
| `busy_agent` | 3 tasks on 1 agent, one cancellable | `AgentConfirmedIdle` violated | |
| `closed_channel` | 1 cancellable task | `NoSendOnClosed` violated | |
| `lost_start` | 1 task, an agent that may lose the start, fair | `LostStartRetried` violated | |
| `leaked_hold` | 1 cancellable task, 1 resource | `NoLeakedHold` violated | |

Why the bounds are enough for what is asked: a stale index needs a resource to pass
between two owners of one plan, of two plans, and of none, hence three tasks and two
plans. The faults strike one dispatch and its repetitions, and two lost
connections allow a failure of the repeated send. The cancel run needs a task in
front of, and behind, the cancelled one in the queue, which is one of two tasks in
either order. Contention needs two agents; the second resource lets an instance be taken
between the snapshot of the holds and the acquire.

For the console: the lock needs two tabs, one of which takes it from the other, and one tree, since tabs meet only on
one; a late answer for a tree that is no longer open is covered by the reload, which forgets it too (one orphaned request of a tab at a time). A canvas
saved under a wrong id needs two trees, and a save, a switch and a late answer; a reload that loses work needs one
edit, and a write by somebody else to be excused. The graph run needs a node, a retry block and a
connection on top of what is stored (three edits; the stored tasks supply the rest). An import is one operation of many
steps, so two (library) and four (task sets) operations of the user leave room for edits before, during and after.
The pages of `operations` need two agents, distributors and trees for one to be left and the other
chosen, and three operations to leave, act and return; answers are not counted. The distributors are interchangeable in that run and nothing
chooses among them, so `MCSymmetry` is sound.

Deadlock checking is on in `resource_holds` and `edit_lock`, and off in the other console runs, where
the bounds on the user's operations end every behaviour. In the dispatch runs it is off: the shared
run stops when every task has ended (heartbeats are bounded there); the faults
and cancel runs can only stop where a stream handler died of the panic that `closed_channel`
is about.

**Fairness.** `FairSpec` has weak fairness for the dispatcher, each `runTask`, each
task's handlers, each visited or ready agent, and for an agent that was sent a
task: goroutines are scheduled, and tasks end. Users, cancels and
heartbeats owe nothing. `lost_start` uses `StronglyFairSpec`: with endless heartbeats
the goroutines compete for `tasksMu`, and Go's mutexes starve nobody; agents go
on sending heartbeats. The violation needs that: it shows that the
retry does not come although everything keeps running.

`EditLock` has strong fairness for the heartbeat tick and for the service of heartbeats, and weak fairness for the service of
the other requests. A browser's interval keeps firing while the tab is open, but the bound on the requests in flight
disables it again and again in the model; and single heartbeats may fail, but not all of them.
Users, expiry, reloads and connections owe nothing.

What the console properties do **not** say, because the code does not promise it: that only one tab edits at a time (two
acquires may both succeed, and `PUT /templates/{id}` does not look at the session); that edits survive a lock call of the same tab
(it moves `updated_at`, so the next refetch reloads); that an import that fails half-way leaves the old content; that goals
stay in scope once one of the refs has spared a reset that was due (`skipLeft`).

**The violations** are places where the code does not do what its own words say:

* `busy_agent`: the clean-up of a cancelled *queued* task calls `CompleteExecution` for an
  agent that executes another task; the next task is sent to the busy agent. The property also
  fails without a cancel when the clean-up of a finished task is delayed beyond the start of the next one.
* `closed_channel`: `NotifyTaskComplete` looks up and sends in two steps; the "full or closed"
  branch does not catch a channel closed in between, the send panics.
* `lost_start`: the lease branch ("retrying") cannot be reached after a lost start, because the robot
  still counts as executing and every caller turns back before it.
* `leaked_hold`: the clean-up of a cancelled task between two calls of its own dispatch removes the
  scope; what is acquired next belongs to no scope and stays held.

More disagreements have no run of their own.

*Chained retry blocks.* The failed port of a retry block may be wired to another retry block. The compiler then stores the id of that
block, which is no step, as the fallback (`resolveRetryEdge`, `index.tsx:1841`); when the numbers of the first are zero, loading draws an edge to that id
(`index.tsx:4562`). If the second block is drawn again, its port has two edges, against the comment of `onConnect` ("Retry node ports are single-connection ports",
`index.tsx:2466`); if not, the edge leads nowhere and the next save stores it again. What the editor promises of ports, edges and transitions therefore holds only as
long as no chain was saved: the history variable `chainSaved` excuses `SavedTransitionsResolve` and `PortsStaySingle` from then on. Without the excuse
they fail after four operations; the three of `authoring` do not show it, the attempt to find an inductive invariant did. `RoundTrip` is excused as well, for a
reason that takes longer: the stored id of the block without numbers may later become that of another block, and then a fallback that was saved as dangling leads into it after
loading (seven operations).

*A profile put back into its own distributor.* The import deletes the distributor's resources and creates them again with new ids. It then reads the old resources of a
task's distributor only when that is another one (`PDDL/index.tsx:2100`), so that for a task of this very distributor no name is known for any token, and all of
`required_resources` is dropped (`2129-2136`), although rows of the same kinds and names are there again. A task that comes from another distributor keeps what the new one has by kind and
name. `ImportFaithful` states both, and `OwnInv` (section 4) is what makes them exact.

*The plan hides that a task is completed.* The comment on the current step of a row wants completed tasks not to be shown as "now" (`PDDL/index.tsx:2791`). While the session's
`last_plan` lists a task, its block is merged with a `pending` of the page's own (`2766`), which `mergeSequenceStatus` ranks above `completed` (`581-587`): a
completed task comes back as pending, and as the current or next step. `TimelineSound` says so (`Hidden`) and holds the rows to the reported statuses everywhere else.

*Odometry without a frame.* A pose editor refuses odometry only if its `frame_id` is not empty and not the target frame (`PoseEditor.tsx:324-327`); odometry that names no frame
is captured under whatever header the field has, while other code of the same editor takes it to be in `base_link`. `CaptureSound` excuses it by name. Until a newly selected robot has
answered, the merged telemetry may still be that of the one selected before.

*No distributor.* Choosing no distributor in the planning dialog is lost: the stored one stays and is shown after the next load (`PlanningTask`, section 2).

`RoundTrip` speaks of drawings that the stored form can express (`Expressible`). What it cannot express is lost or changed when a task is saved and opened again:
a retry block without numbers; failures of one action that do not all run into its block; a block whose fallback, drawn at its failed or its
warning port (`resolveRetryEdge`), leads back to its own action; chained blocks; and two end states of an action with the same outcome, of which the first has the same state or none. A stored transition
names an outcome and a state, an empty state stands for any, and the loader takes the first end state that fits (`find`, `index.tsx:4495`), so both transitions come back on the handle of the
first (`ToldApart`).

## 4. Proofs

Proved by TLAPS for any finite or infinite sets of tasks, agents, resources and plans (tabs, trees, distributors) and for all
bounds, from the assumptions that the modules declare on their constants (they are well typed, null and empty
identifiers are not identifiers, and the tasks and plans that the pages start from are such as the server stores). A theorem that needs more says so in its `ASSUME`, and the run that checks its
property satisfies it.

**`ResourceHoldsProofs`.** `PlanIndexSound` and `ScopeSound` are not inductive on their own. A release goes
through the plan *stored in the hold* (so a hold must carry the plan of its task,
`HoldCarriesPlan`), and an unregistered scope must list nothing
(`ScopeRegistered`), or registering and releasing would resurrect entries. `ResourceInv` is
the conjunction; `NextResourceInv` shows it inductive with one lemma per kind of call.
From it follow `PlanIndexCorrect`, `ScopeCorrect`, `OccupancyCorrect` (with the occupancy
variables as one more conjunct) and `HoldsImplementLock`: the mapping takes the
task of each hold as the owner, and the invariant is what makes the unchecked
deletes of `ReleaseAllPlanResources` and the agent-only check of `ReleaseTaskResources`
steps of the abstract lock.

**`TaskDispatchProofs`.** `NoStartAfterCancel` is an action property. It follows from `QueueInv`: the
dispatcher's task is the head of its queue while it holds `tasksMu`
(`HeadDispatched`), queues hold no duplicates (`QueueSound`), so a task dequeued
once is gone, and a task whose `CancelTask` returned is in no queue
(`CancelledNotQueued`). `NotYetStarted` keeps `StartTask` from adding such a task again,
and `TerminalUpdates` types the results handed to `runTask`. `QueueInvStep` has one lemma per
process. `DispatchImplementsHolds` shows every step to be a call of `ResourceHolds` or to leave its
variables alone, so `DispatchKeepsResourceInv` carries the resource invariant over to
the whole scheduler.

*The life of one task*, in the same module. `QueueInv` says what `tasksMu` protects. The hazards are in what it does not: the goroutine of a
task, its channel, the reports on their way and the resource maps. Five invariants of a single task `t`, most of them using the ones before:

* `RunInv`: the program counter of `runTask`, the state of its channel and membership in `tasks` go together, and no agent
  has, says or is told anything of a task that was not started (`Trace`).
* `PastQueue` (nobody may cancel `t`): once a report on `t` is past its acknowledgement, or a result was delivered, `t` is in no queue. So the
  handler that releases never meets the dispatcher that acquires.
* `HoldInv`: what `t` holds is listed in its scope and held by its agent, and it holds something only while it is being dispatched,
  leased, executed, or cleaned up (`Holding`). `QueuedHoldsNothingCorrect` (with `ScopeInv`, below) and `NoLeakedHoldCorrect` are
  read off it. Both assume `Plain = Tasks`: nobody cancels (a cancelled task does leak, run `leaked_hold`), and behaviour
  trees take no resources themselves (the agent's events acquire for a task at any time, also when it waits). Lost messages, expired leases,
  repeated and late reports, failing catalogs and pauses are all allowed.
* `ScopeInv`: `t` has a scope or bindings only from its reservation on until the dispatcher that turns it back has dropped them. This one needs no
  assumption: the other goroutines only ever drop scopes.
* `LossInv` under `Intact` (no message lost so far): a task that its goroutine waits for is queued, on its way, executed,
  reported or delivered (`Linked`). `NoStrandedTaskCorrect` needs `Prompt`: a result that overtakes the start of the goroutine finds no channel
  and is dropped, a hazard listed without a property. Leases may expire and tasks may be started twice.

*One dispatch, one end*, in the same module. `Reliable` is `Punctual /\ ~Lossy /\ MaxDrops = 0`: a lease never expires under a dispatch that the agent may still answer.
That is an assumption on the network and not on the code, and what the theorems say is false without it
(a task whose lease expires is started again while the agent still executes it). `LifeInv`: a task not yet sent left no trace, a task that was sent
is never dispatched again, and start message, execution and terminal report exclude one another, so that
`StartedOnceCorrect` follows. `EndInv` counts the ends: when a result has been delivered no other one is under way
(`NoSendOnClosedCorrect`; a cancel would close the channel under a result, run `closed_channel`), and the row that `runTask` writes
is written last (`FinishedRowFinalCorrect`; without `Ordered` the *running* report may be handled after the end, and a pause may overwrite
it). `UseInv`: what `t` was bound to (`Claims`) is held for it until its end, because the steps that release are those of its own
clean-up and of a dispatch that it is past (`OwnSteps`); `HeldWhileRunningCorrect` also assumes that a tree does not itself return a
resource it was dispatched with.

**`EditLockProofs`**, for any tabs and trees and any bounds. Neither `EditingWatched` nor `OwnMeansEditing` depends on
what the server does, but the callbacks that establish and end edit mode are driven by answers and events of the server's
making; `LockInv` therefore adds the types of the page's variables (`PageTypes`), of the rows the handlers write (`RowTypes`) and of the
answers and events under way (`AnswersFit`). `ServerKeeps`, `SendKeeps`, `AnswerKeeps`, `MessageKeeps` and `RemountKeeps` show one kind of step
each to preserve it, `LockNext` combines them. `EditLockTyped` adds the bounds on requests and events (`QueueInv`).

**`EditorCanvasProofs`**, from `CanvasAssumption` and `NullAssumption` (the null of an absent row, load or job is none of these),
for any trees, edits, writes and changes of the selection. What a save sends is what is on the canvas, so `NoCrossTreeSave` says nothing
about the steps before the save; `SaveInv` does: every row stored, cached or under way belongs to its tree; a canvas that is not
empty is the one of `loadedTemplateRef`, and that is the selection (`CanvasFits`); a selection whose template is cached has been loaded
(`CachedIsLoaded`), so the first edit of an empty canvas is its own too. The central lemma is `EffectsKeep`: the effects of a render,
in the order they run, establish these facts after every step that changes the list, the cache or the selection. `UserKeeps`, `AnswersKeep`,
`TreesKeep` and `WritersKeep` take the steps, `SaveNext` combines them. `ReloadNeedsWrite` is an action property about time: `StampInv`
adds that the versions under way, cached, loaded and restored by a failed save are none the row did not have (`Stamped`), and that what is loaded is what is cached
(`LoadedIsCached`); a reload of the same tree then has a newer stamp, which only a write gives.

**`OperationsProofs`**, for any agents, trees, distributors, tasks and executions and any bounds.

* Realtime rows: `LineInv` is `NoGhostHolds` with the shape of the page's record. No refresh is under way while no execution is shown, because
  clearing the ids cancels what was asked for them. What the rows say of the answers has two parts. `MonitorInv` is about the answers: they are
  well typed, the plan shown is that of an execution, and what is known of an execution are its steps. The rest is about the merge, for *any* such
  answers: a list of blocks `Sums` a set of steps when each block has the order and the status of some step of its task, and each step is covered by
  a block of its task that comes no later and weighs no less. `AppendStep` and `MergeBlock` are followed step by step through their folds (neighbouring steps of a task are one
  block; a block of a task that is planned or was met already is merged with it, which leaves each task one block, `Once`), and the sorts in between change neither.
  `TimelineSoundCorrect` and `TimelineTyped` follow.
* Agent page: `AgentInv` says that the page is coherent with the caches it shows *after the effects of every step*, that each call under way
  addresses an agent and, while it starts a tree, names it, and that a call which asks for the start itself found a status that was ready or
  vouched for since (`CallOK`). `SelectionCoherentCorrect`, `StartVouchedCorrect` and `AgentTyped` follow.
* Planning page: the step of a handler is four renders deep, and the proof follows the renders. `RoundTypes`, `RoundFit` and `RoundGoal` are what every render
  keeps: a poll that is not cancelled asks for the execution of the page *before* the render, and a stored draft may have the goal of another scope only as long as the
  next render writes that draft again (`RoundGoals`). `RoundQuiet` and `QuietRound` show that after the first render no task is selected or
  deselected any more, so that after the second the selection's key stays and the draft with it: the four of `Settled` are enough. `SettleStep`
  reduces a handler to what it sets (`Follows`), stores (`StoreOK`) and leaves under way (`NetOK`); `SwitchOK` shows these of every change of the scope, also with
  the page of a render that is long gone, since what it stores and what it applies are drafts of their own scopes. `PddlInv` is the invariant of
  settled pages; `NoGhostExecutionCorrect` and `GoalsStayInScopeCorrect` follow.
* The types of the planning page follow the same renders with an invariant of their own, `PddlFull`: what is shown, stored and under way is full (`RoundFull` of a render, `SettledFull`
  of four), one lemma per group of handlers. The interesting part is the selection, a list that must stay within `MaxSelected` whatever the
  effects take out of it and whichever draft is put back: a filter returns no more than it was given (`AtShorter`). With `MonitorInv` and
  `AgentInv` this gives `TypeOKCorrect` of all screens that run robots.

**`SublistsProofs`** has the induction that the rest needs. The library's theorems about recursion and induction take an operator as a
parameter, which no prover here can instantiate, so both are stated with sets and functions: a set of numbers that has zero and with each number the next
has them all (`NumberSet`, from the least element of a set, `LeastNumber`), and a function defined from left to right along a
sequence exists and satisfies its equations (`NumberRecursion`, `UpToRecursion`). From these: a filter returns the elements at the positions asked for, one
position each and in order (`AtPositions`); a `flatMap` has for each of its positions a list and a place in it, and the reverse
(`FlattenPositions`); a sort by numbers, as the insertion it is written as, is rising and has each element once for each time it was
there (`SortedByRises`).

**`AuthoringProofs`**, for any distributors, contents, tokens and holders, any robots, telemetry, goal types, file rows and bounds, and any finite set of tasks.
Its part on the canvas rests on `TaskGraphProofs`.

* Canvas: `GraphInv` is a `Drawing` always (ids of nodes are unique, a retry block knows its action, each node has the fields of its kind), and `Sound`
  as long as no chain of retry blocks was saved. `Sound` is `PortsStaySingle` with what a save and a reload need: no edge without its nodes (`BothThere`), and no
  edge into a retry block from the end state of a success (`IntoBlock`), since loading would give the block's port a second edge.
  Every gesture keeps it; compiling a sound drawing gives typed steps that refer to each other; and loading *any* such steps gives a sound drawing, with one
  lemma per kind of edge that a stored step gives rise to (back from its block, straight to another step, into the block, from the block to the
  fallback). `PortsStaySingleCorrect` and `SavedTransitionsResolveCorrect` follow. The stored tasks from which the canvas starts are assumed (`StoredAssumption`) to be lists of typed steps
  with distinct ids that refer to each other, and the end states of an action to have handles of their own: that is what the editor saves, and the
  theorem says that it goes on doing so. Also assumed is that a stored end state names one of the six outcomes. `EndStateConfig.outcome` is optional
  (`types/index.ts:135`), but for an end state without one `inferOutcome` decides by position and label and `RetryHandle` could hang a
  retry block on the handle of a success.
* Canvas, saved and loaded: `RoundTripCorrect` says that two compilations, before a save and after opening what was saved, are *equal*: the same steps in the same order with the same transitions,
  retry numbers, result states and entry point. Compiling inverts loading, one definition at a time. A step is determined by the leads of its end states (`StepAgrees`), each with its outcome, the step or
  block it reaches and what the block adds. Both `flatMap`s list their results in the order of the end states, so two actions whose leads are `Alike` list the same transitions (`ListedOnce`).
  That the loaded action has leads alike is shown per edge: the handles tell the edges of an action apart (`HandleAgain`, with `ToldApart`), each edge loaded from a step is straight
  (`DirectAgain`), into the block of the step or from the block (`BackAgain`, `TargetAgain`), and none is there that the step did not say (`LoadedFrom`, `LeavesBy`). `StepAgain`,
  `TerminalAgain` and `CompiledAgain` put the steps together, and `GraphRoundTrip` reads the property off `GraphInv`.
* Library of distributors: `LibInv` types the tables (rows are numbered uniquely, below the next number) and the handlers under way. `ImportsInv` says that there is at
  most one import, that whatever else is written marks it as touched, and that an untouched import is as far as its stage says (`AsFar`): the states made, then the
  types, then the instances of each type, each time as a one-to-one correspondence between rows of the file and rows of the server (`StatesMade`, `TypesMade`,
  `InstancesMade`, `AllMade`). An export lists its rows in any order, so two profiles are compared by how often each entry occurs
  (`SameBag`), which a one-to-one correspondence keeps. What becomes of the task's requirement is a matter of ids: `OwnInv` says that a number belongs to the rows of one
  distributor for ever, whether they are tokens of the task, parents, ids that a handler remembers or rows that are gone (`Owned`), so that clearing one distributor
  takes nothing that another one's task requires and no new row has a number that a token already has. `HistoryInv` says that while an import is undisturbed the
  task still requires what it did when the import began (`Remembered`), and once the distributor is cleared none of its rows. `ReboundIs` then
  gives what the bind computes, and `ImportFaithfulCorrect` follows.
* Planning dialog: `SavedAsConfigured` speaks of the requests already sent, so `PlanInv` adds what holds before a save (`PromiseHeld`): what the
  user never gave up is in the dialog's task, and the distributor selected, once it is loaded, allows it, so that no run of the filter effect
  takes it out. `FilterEffectKeeps` shows this of one run of the effect, whatever distributor it finds.
* Task sets: what an import of several tasks has done is spread over the phases of each. `SetInv` follows them (`Shape`): while nobody else wrote, the
  unassign requests under way delete assignments that are there and none that the import made (`QuietIn`), and as long as nothing failed either, the
  entries before the current one are done and the current one is as far as its phase says (`CleanIn`). A later entry undoes nothing because a file
  names each task once (`OneEach`), which is itself proved of the exports that write the files (`ExportOK`, `SetToSeqOnce`). The finite set is
  needed there: a list of all tasks exists. A parallel request that fails lets the import go on while others are under way; that ends `CleanIn` and
  not `QuietIn` (`LateAnswerKeeps`).
* Captured telemetry: that captures are of the selected robot follows from `CaptureInv`: once that robot has answered, the context has
  its telemetry, because the effects run after every step that changes the context (`SetInStep`). The rest holds of any transforms (finitely many, with
  names: `TelemetryAssumption`) and is about the searches through them. `Reached` is a recursion over rounds, and induction is needed twice: to
  know that the recursion defines something (`NumberRecursion`), and that as many rounds as there are edges close the search, since each
  round that is not closed takes an edge more (`ReachedClosed`, `ReachedLeast`). From then on only "closed" and "least" are used: what a search against the edges
  finds leads back (`ReversedReach`), so that all offered frames are below the base and the search in both directions finds them (`ToolsCapturable`).
* Types: `TypeOKCorrect` of all the screens that define tasks is the conjunction of the above with the fields of a node (`FieldsInv`: once the editors are
  shown and their effects have run, a speed factor is a number in its range and a tool frame has no source).

The proofs changed the models. Some needed only an assumption spelled out: the null of a content or of a task is neither
(`ContentAssumption`, `SetRowsAssumption`), null is no handle, outcome or list (`NullAssumption`), transforms without names are passed over (`TelemetryAssumption`), the library
has a distributor and room for the rows it begins with (`ProfileAssumption`), a plan is a finite set with one step per task and its
order a number (`TimelineAssumption`). Six definitions of `TaskDispatch` and `TaskGraph` were `CASE` expressions whose guards overlap,
which leaves open which branch is taken; the code has an order, and they are `IF ... ELSE` now. The filters, `flatMap`s and sorts of the
pages were `SelectSeq`, `FoldLeft` and `SortSeq`, whose recursion or choice the prover cannot follow; they are written with `Sublists` now and TLC
finds the same states. And `skipLeft` had missed an exception (section 2, `PddlPage`), `PortsStaySingle` and `SavedTransitionsResolve` the chains
of retry blocks (section 3). `RoundTrip` was too strong: it holds in every behaviour of the three operations that `authoring` allows on its stored tasks, but is false of a drawing whose action has two
end states alike, of a fallback that returns to its own action from the warning port, and after a chain was saved; `Expressible` and the property say so now.

Only model-checked, and why:

* Liveness (`EveryTaskEnds`, `StaleEditorStopped`) and the violations: fairness and `ENABLED` are beyond the prover.
* What the recursive definitions of the libraries compute (`FoldLeft`, `SelectSeq`, `SortSeq`): induction over data takes an operator as a parameter. Where a property needed
  such a fact the definition is written with `Sublists` or as a recursive function, and the induction is that of `SublistsProofs`.

Every invariant and every action property of the passing runs is stated by a theorem; those of the scheduler that assume more than their module does (`Reliable`, `Intact`, `Prompt`, `Plain = Tasks`) say
so above, with what the code does when the assumption fails.

## 5. Not modelled

`PROJECT.json` names each part with its reason. In short: server components that wait for a later
module (section 6); input/output and conversions without state; the display pages of the console
(`pages/Monitoring`, `pages/TaskHistory`, `BehaviorTreeViewer`, `StatesPanel`, `PlanVisualization`), which render what a
query returned and keep no state that another step could contradict; texts and layout.

## 6. Plan

In this order; each module with its run, mutants and map.

1. `PlanExecution` (plan executor), composed with `TaskDispatch`'s abstract view of a task; cancel and
   failure while steps start; release of plan resources; polling of the row and paused tasks.
2. `AgentSession`: registration, replacement, disconnect races, heartbeat and report streams out of order.
3. `GraphDeploy`: cache versions, deploy with timeout and late responses, invalidation.
4. `ZoneReservation` and `MultiAgentStart`.
5. `StateOverrides` with the manual reset guard; `StartConditions` and `RuntimeBindings` as pure operators
   against reference definitions.
6. `Planner`: grounding, search and validation over small domains; then `RealtimePddl`.
7. Pending commands and ping/pong.

Abstract specifications worth stating: a task life cycle (queued, started once, ended once) that
`TaskDispatch` implements under `Ordered`, `Prompt`, `Punctual`; an edit lock; an all-or-nothing start.
Theorems next: the task life cycle as a refinement, with the invariants of `TaskDispatchProofs`; the plan executor's order of steps, the zone
reservation's exclusion.
