------------------------------ MODULE PddlPage ------------------------------
(***************************************************************************)
(* The planning page (frontend/src/pages/PDDL/index.tsx) in one tab: the   *)
(* task distributor that is the scope of the work, the tasks and agents    *)
(* selected, the goals, the plan, the execution and the realtime session,  *)
(* all of which are kept per distributor in localStorage.  A handler sets  *)
(* state, React renders it and runs the effects whose dependencies changed,*)
(* and what those set is rendered again, until nothing changes.  Answers   *)
(* of the server come at any later time and in any order.                  *)
(*                                                                         *)
(* A goal is abstracted to the scope it was typed in, a plan to the scope  *)
(* it was computed for and whether it is valid.  initialState,             *)
(* showInitialState and the tick interval are set and reset with the goals.*)
(* The older storage key is always written with the scoped one and adds    *)
(* nothing to it.                                                          *)
(***************************************************************************)
EXTENDS Naturals, Sequences, FiniteSets, Functions, Sublists

CONSTANTS Distributors,  \* ids of task distributors
          Tasks,         \* ids of behaviour trees
          Null,          \* null
          MaxPddlOps,    \* bound: what the user and other clients do
          MaxRuns,       \* bound: plan executions
          MaxSessions,   \* bound: realtime sessions
          MaxSelected,   \* bound: length of selectedBTIds
          MaxPolls       \* bound: polls of one kind under way

ASSUME PddlAssumption ==
    /\ Null \notin Distributors \cup Tasks
    /\ MaxPddlOps \in Nat /\ MaxRuns \in Nat /\ MaxSessions \in Nat
    /\ MaxSelected \in Nat \ {0} /\ MaxPolls \in Nat

Scopes == Distributors \cup {Null}
PlanResult == [td : Scopes, is_valid : BOOLEAN]

\* PDDLDraftState: selectedAgentIds tells whether an agent is selected,
\* realtimeGoals whether one of the goals is enabled and has a goal state.
PDDLDraftState ==
    [selectedBTIds : UNION {[1 .. n -> Tasks] : n \in 0 .. MaxSelected},
     selectedAgentIds : BOOLEAN, goalState : Scopes, plan : PlanResult \cup {Null},
     executionId : 0 .. MaxRuns, realtimeGoals : BOOLEAN, realtimeSessionId : 0 .. MaxSessions]

\* normalizePddlDraft of nothing.
EmptyDraft ==
    [selectedBTIds |-> <<>>, selectedAgentIds |-> FALSE, goalState |-> Null, plan |-> Null,
     executionId |-> 0, realtimeGoals |-> FALSE, realtimeSessionId |-> 0]

VARIABLES pg,     \* the state, memos and refs of the component
          store,  \* localStorage: a draft per scope, and the last distributor
          net,    \* requests of the page that are not answered yet
          srv,    \* the rows of the server that the page uses
          pddlOps,
          skipLeft  \* history: a ref of the reset outlived the render it was for

pddlVars == <<pg, store, net, srv, pddlOps, skipLeft>>

\* Keys of selectionKey: the selected ids in sorted order, and the distributor.
SelectionKey(ids, td) == <<[t \in Tasks |-> Cardinality({i \in DOMAIN ids : ids[i] = t})], td>>
KeyOf(q) == SelectionKey(q.draft.selectedBTIds, q.td)

FreshPage ==
    [td |-> Null, draft |-> EmptyDraft, treeList |-> {}, distributors |-> {},
     agents |-> FALSE,            \* whether the list of agents is loaded
     memo |-> FALSE,              \* resolvedSelectedAgentIds in buildCurrentDraft's closure
     execution |-> [id |-> 0, status |-> "none"],
     session |-> [id |-> 0, status |-> "none"],
     polling |-> FALSE,           \* the interval of pollExecution
     isSolving |-> FALSE, isStarting |-> FALSE, isStopping |-> FALSE,
     skipReset |-> FALSE, restoredKey |-> Null, isApplying |-> FALSE, autoSelected |-> FALSE]

NoExecution == FreshPage.execution
NoSession == FreshPage.session

(***************************************************************************)
(* Drafts in localStorage                                                  *)
(***************************************************************************)
Resolved(q) == q.draft.selectedAgentIds /\ q.agents

\* buildCurrentDraft is memoised on the draft's fields and not on the agents.
buildCurrentDraft(q) == [q.draft EXCEPT !.selectedAgentIds = q.memo]

writeStoredDraft(s, td, d) ==
    [drafts |-> [s.drafts EXCEPT ![td] = d], last |-> IF td = Null THEN s.last ELSE td]

applyStoredDraft(q, td, d) ==
    [q EXCEPT !.td = td, !.draft = d, !.execution = NoExecution, !.session = NoSession,
              !.skipReset = TRUE, !.isApplying = TRUE,
              !.restoredKey = SelectionKey(d.selectedBTIds, td)]

readStoredDraft(s, td) == IF s.drafts[td] = Null THEN EmptyDraft ELSE s.drafts[td]

\* switchDistributorScope as the render whose page was c created it; q is the
\* page now, which differs from c after an await.
switchDistributorScope(q, c, td) ==
    LET s == writeStoredDraft(store, c.td, buildCurrentDraft(c))
    IN [page |-> applyStoredDraft(q, td, readStoredDraft(s, td)), store |-> s]

(***************************************************************************)
(* Effects.  r.old is the page before the render, r.new the one rendered;  *)
(* all effects see r.new, and what they set is the next render.            *)
(***************************************************************************)
Changed(r) == <<r.old.td, r.old.draft>> # <<r.new.td, r.new.draft>>

\* Tasks that left the list are unselected when a list arrives.
DropUnknown(r, d) ==
    IF r.loaded /\ r.new.treeList # {}
    THEN [d EXCEPT !.selectedBTIds = Filter(@, LAMBDA t : t \in r.new.treeList)]
    ELSE d

\* The first task of the list is selected once, unless one is already.
AutoSelectTask(q, d) ==
    IF q.autoSelected \/ q.draft.selectedBTIds # <<>> \/ q.treeList = {} THEN d
    ELSE [d EXCEPT !.selectedBTIds = <<CHOOSE t \in q.treeList : TRUE>>]

\* The draft is written at each change but the one that applied a draft.
PersistDraft(r) ==
    IF Changed(r) /\ ~ r.new.isApplying
    THEN writeStoredDraft(r.store, r.new.td, [r.new.draft EXCEPT !.selectedAgentIds = Resolved(r.new)])
    ELSE r.store

\* Another selection clears what depends on it, except when a draft brought it.
Kept(r) == r.new.skipReset \/ r.new.restoredKey = KeyOf(r.new)

\* Mutant: the goals stay.
ResetSelectionKeepsGoals(r, d) ==
    IF KeyOf(r.old) = KeyOf(r.new) \/ Kept(r) THEN d
    ELSE [d EXCEPT !.plan = Null, !.executionId = 0]

ResetSelection(r, d) ==
    IF KeyOf(r.old) = KeyOf(r.new) \/ Kept(r) THEN d
    ELSE [d EXCEPT !.goalState = Null, !.plan = Null, !.executionId = 0]

\* Mutant: no clean-up.
CancelNoPolls(r) == r.net

\* A poll belongs to the effect that started it: cancelled is set by its clean-up.
CancelPolls(r) ==
    {IF \/ m.op = "poll" /\ r.old.draft.executionId # r.new.draft.executionId
        \/ m.op = "session" /\ r.old.draft.realtimeSessionId # r.new.draft.realtimeSessionId
     THEN [m EXCEPT !.cancelled = TRUE] ELSE m : m \in r.net}

RunEffects(r) ==
    LET q == r.new
        rekeyed == KeyOf(r.old) # KeyOf(q)
    IN [q EXCEPT
            !.draft = ResetSelection(r, AutoSelectTask(q, DropUnknown(r, q.draft))),
            !.memo = IF Changed(r) THEN Resolved(q) ELSE @,
            !.isApplying = @ /\ ~ Changed(r),
            !.autoSelected = @ \/ q.draft.selectedBTIds # <<>> \/ q.treeList # {},
            !.polling = IF r.old.draft.executionId # q.draft.executionId
                        THEN q.draft.executionId # 0 ELSE @,
            !.session = IF r.old.draft.realtimeSessionId # 0 /\ q.draft.realtimeSessionId = 0
                        THEN NoSession ELSE @,
            !.execution = IF rekeyed /\ ~ Kept(r) THEN NoExecution ELSE @,
            !.skipReset = @ /\ ~ rekeyed,
            !.restoredKey = IF rekeyed /\ ~ q.skipReset /\ @ = KeyOf(q) THEN Null ELSE @]

Round(r) ==
    [old |-> r.new, loaded |-> FALSE, store |-> PersistDraft(r), net |-> CancelPolls(r),
     new |-> RunEffects(r)]

\* The renders after a page q was set; four are enough to settle.
Settled(old, q, s, m, loaded) ==
    LET r1 == Round([old |-> old, new |-> q, store |-> s, net |-> m, loaded |-> loaded])
        r2 == Round(r1)
        r3 == Round(r2)
    IN Round(r3)
\* restoredSelectionKeyRef, kept since an earlier restore, spares another distributor
\* that comes with the same selection.
KeySpares(old, q) == q.td # old.td /\ ~ q.skipReset /\ q.restoredKey = KeyOf(q)

Settle(old, q, s, m, loaded) ==
    \E r \in {Settled(old, q, s, m, loaded)} :
        /\ pg' = r.new /\ store' = r.store /\ net' = r.net
        /\ skipLeft' = (skipLeft \/ r.new.skipReset \/ KeySpares(old, q))

Render(q) == Settle(pg, q, store, net, FALSE)

\* The effects of the first render: the last draft is restored, and the effects
\* after it find isApplyingScopedDraftRef and skipNextSelectionResetRef set.
Mounted(s) ==
    IF s.drafts[s.last] # Null
    THEN Settled(FreshPage, [applyStoredDraft(FreshPage, s.last, s.drafts[s.last])
                                EXCEPT !.isApplying = FALSE, !.skipReset = FALSE], s, {}, FALSE)
    ELSE Settled(FreshPage, [FreshPage EXCEPT !.td = s.last],
                 writeStoredDraft(s, Null, EmptyDraft), {}, FALSE)

(***************************************************************************)
(* Conditions of the buttons                                               *)
(***************************************************************************)
SelectedDistributor(q) == q.td \in q.distributors
SelectedTasks(q) == Range(q.draft.selectedBTIds) \cap q.treeList
isExecuting(q) == q.execution.status = "running"
isRealtimeActive(q) == q.draft.realtimeSessionId # 0 /\ q.session.status = "running"

canSolve(q) ==
    SelectedDistributor(q) /\ SelectedTasks(q) # {} /\ Resolved(q) /\ q.draft.goalState # Null
canExecute(q) ==
    /\ SelectedDistributor(q) /\ SelectedTasks(q) # {} /\ ~ isExecuting(q)
    /\ q.draft.plan # Null /\ q.draft.plan.is_valid
canStartRealtime(q) ==
    /\ SelectedDistributor(q) /\ SelectedTasks(q) # {} /\ Resolved(q) /\ q.draft.realtimeGoals
    /\ ~ q.isStarting /\ ~ q.isStopping /\ ~ isRealtimeActive(q) /\ ~ isExecuting(q)

\* Rows and buttons as they are rendered.
DistributorRow(q, td) == td \in q.distributors
TaskRow(q, t) == t \in q.treeList
Workspace(q) == SelectedDistributor(q)
AgentCard(q) == q.agents /\ Workspace(q)
SolveButtons(q) == canSolve(q) /\ ~ q.isSolving
CancelButton(q) == isExecuting(q) /\ q.draft.executionId # 0
StopRealtimeButton(q) == q.draft.realtimeSessionId # 0 /\ ~ q.isStopping /\ Workspace(q)
MonitorCards(q) == q.session # NoSession /\ q.draft.realtimeSessionId # 0

\* A request keeps of the closure that sent it what its answer uses: the page
\* of that render, the id in the path, and what the server read for a poll.
Request(op, id) == [op |-> op, id |-> id, status |-> "none", cancelled |-> FALSE, saw |-> Null]
Op == pddlOps < MaxPddlOps /\ pddlOps' = pddlOps + 1
Send(m) == net' = net \cup {m}
Done(m) == net \ {m}
Sent(op) == {m \in net : m.op = op}

(***************************************************************************)
(* Loading, selection, goals                                               *)
(***************************************************************************)
Reload ==
    /\ Op
    /\ \E r \in {Mounted(store)} : pg' = r.new /\ store' = r.store /\ net' = r.net
    /\ UNCHANGED <<srv, skipLeft>>

loadData ==
    /\ pg.treeList # srv.trees \/ ~ pg.agents
    /\ Settle(pg, [pg EXCEPT !.treeList = srv.trees, !.agents = TRUE], store, net, TRUE)
    /\ UNCHANGED <<srv, pddlOps>>

loadDistributors ==
    /\ pg.distributors # srv.tds
    /\ Render([pg EXCEPT !.distributors = srv.tds])
    /\ UNCHANGED <<srv, pddlOps>>

\* A task that is not selected is fetched first, unless it is cached.
handleToggleBT(t) ==
    /\ TaskRow(pg, t)
    /\ Op /\ UNCHANGED srv
    /\ IF t \in Range(pg.draft.selectedBTIds)
       THEN Render([pg EXCEPT !.draft.selectedBTIds = Filter(@, LAMBDA u : u # t)])
       ELSE /\ Len(pg.draft.selectedBTIds) + Cardinality(Sent("toggle")) < MaxSelected
            /\ Send([Request("toggle", t) EXCEPT !.saw = pg.td])
            /\ UNCHANGED <<pg, store, skipLeft>>

\* The task brings its distributor when there was none at the click, or is given
\* the one there was; that second request may fail.
TaskFetched(m) ==
    /\ m \in Sent("toggle") /\ Len(pg.draft.selectedBTIds) < MaxSelected
    /\ LET owner == srv.owner[m.id]
           q == [pg EXCEPT !.draft.selectedBTIds = Append(@, m.id)]
       IN /\ Settle(pg, IF owner # Null /\ m.saw = Null THEN [q EXCEPT !.td = owner] ELSE q,
                    store, Done(m), FALSE)
          /\ IF owner = Null /\ m.saw # Null
             THEN srv' \in {srv, [srv EXCEPT !.owner[m.id] = m.saw]}
             ELSE UNCHANGED srv
    /\ UNCHANGED pddlOps

toggleAgent ==
    /\ AgentCard(pg) /\ Op
    /\ Render([pg EXCEPT !.draft.selectedAgentIds = ~ @])
    /\ UNCHANGED srv

\* GoalEditor, for the goals and the initial state alike.
setGoalState(g) ==
    /\ Workspace(pg) /\ g \in {pg.td, Null} /\ g # pg.draft.goalState /\ Op
    /\ Render([pg EXCEPT !.draft.goalState = g])
    /\ UNCHANGED srv

\* RealtimeGoalEditor and handleImportCurrentGoalToRealtime.
setRealtimeGoals ==
    /\ Workspace(pg) /\ Op
    /\ Render([pg EXCEPT !.draft.realtimeGoals = ~ @])
    /\ UNCHANGED srv

\* The tasks selected in the scope that is left are given to the new one.
handleSelectDistributor(td) ==
    /\ DistributorRow(pg, td) /\ Op
    /\ IF td # pg.td
       THEN LET w == switchDistributorScope(pg, pg, td)
            IN Settle(pg, w.page, w.store, net, FALSE)
       ELSE UNCHANGED <<pg, store, skipLeft, net>>
    /\ srv' \in {srv, [srv EXCEPT !.owner = [t \in Tasks |->
                            IF t \in SelectedTasks(pg) THEN td ELSE @[t]]]}

(***************************************************************************)
(* Distributors: what follows an await uses the page of the click          *)
(***************************************************************************)
handleCreateTd ==
    /\ Sent("createTd") = {} /\ Op
    /\ Send([Request("createTd", 0) EXCEPT !.saw = pg])
    /\ UNCHANGED <<pg, store, skipLeft, srv>>

TdCreated(m) ==
    /\ m \in Sent("createTd")
    /\ \E td \in Distributors \ srv.tds :
        /\ srv' = [srv EXCEPT !.tds = @ \cup {td}]
        /\ LET w == switchDistributorScope([pg EXCEPT !.distributors = srv.tds \cup {td}], m.saw, td)
           IN Settle(pg, w.page, w.store, Done(m), FALSE)
    /\ UNCHANGED pddlOps

handleDeleteTd(td) ==
    /\ DistributorRow(pg, td) /\ Sent("deleteTd") = {} /\ Op
    /\ Send([Request("deleteTd", td) EXCEPT !.saw = pg])
    /\ UNCHANGED <<pg, store, skipLeft, srv>>

TdDeleted(m) ==
    /\ m \in Sent("deleteTd") /\ m.id \in srv.tds
    /\ srv' = [srv EXCEPT !.tds = @ \ {m.id}]
    /\ IF m.saw.td = m.id
       THEN LET w == switchDistributorScope(pg, m.saw, Null)
            IN Settle(pg, w.page, w.store, Done(m), FALSE)
       ELSE net' = Done(m) /\ UNCHANGED <<pg, store, skipLeft>>
    /\ UNCHANGED pddlOps

\* The last step of handleImportDistributorProfile (module DistributorProfile):
\* the profile's distributor, tasks and goals replace what the page shows.
ImportApplied(td, ids) ==
    /\ td \in srv.tds /\ Op
    /\ Render([pg EXCEPT !.td = td, !.skipReset = TRUE, !.restoredKey = SelectionKey(ids, td),
                         !.execution = NoExecution, !.session = NoSession,
                         !.draft = [EmptyDraft EXCEPT !.selectedBTIds = ids, !.goalState = td]])
    /\ UNCHANGED srv

(***************************************************************************)
(* Solving and executing                                                   *)
(***************************************************************************)
ForgetPlan(q) ==
    [q EXCEPT !.draft.plan = Null, !.draft.executionId = 0, !.execution = NoExecution,
              !.draft.selectedAgentIds = Resolved(q)]

\* handlePreview and handleSaveAndSolve differ in the requests they make.
handleSolve ==
    /\ SolveButtons(pg) /\ Op
    /\ Settle(pg, [ForgetPlan(pg) EXCEPT !.isSolving = TRUE], store,
              net \cup {[Request("solve", 0) EXCEPT !.saw = pg.td]}, FALSE)
    /\ UNCHANGED srv

Solved(m) ==
    /\ m \in Sent("solve")
    /\ \E ok \in BOOLEAN :
        Settle(pg, [pg EXCEPT !.isSolving = FALSE, !.draft.plan = [td |-> m.saw, is_valid |-> ok]],
               store, Done(m), FALSE)
    /\ UNCHANGED <<srv, pddlOps>>

\* The problem is created and solved again before it is executed.
handleExecute ==
    /\ canExecute(pg) /\ Op
    /\ Settle(pg, [pg EXCEPT !.draft.selectedAgentIds = Resolved(pg)], store,
              net \cup {Request("execute", pddlOps)}, FALSE)
    /\ UNCHANGED srv

Executed(m) ==
    /\ m \in Sent("execute")
    /\ \/ LET e == Cardinality({i \in 1 .. MaxRuns : srv.runs[i] # "none"}) + 1
          IN /\ e <= MaxRuns
             /\ srv' = [srv EXCEPT !.runs[e] = "running"]
             /\ Settle(pg, [pg EXCEPT !.draft.executionId = e], store, Done(m), FALSE)
       \/ net' = Done(m) /\ UNCHANGED <<pg, store, skipLeft, srv>>   \* invalid or refused
    /\ UNCHANGED pddlOps

handleCancelExecution ==
    /\ CancelButton(pg) /\ Op
    /\ srv' = [srv EXCEPT !.runs[pg.draft.executionId] = "done"]
    /\ UNCHANGED <<pg, store, skipLeft, net>>

pollExecution ==
    /\ pg.polling /\ Cardinality(Sent("poll")) < MaxPolls
    /\ Send([Request("poll", pg.draft.executionId)
                EXCEPT !.status = srv.runs[pg.draft.executionId]])
    /\ UNCHANGED <<pg, store, skipLeft, srv, pddlOps>>

\* The first poll does not stop the interval, a later one that finds the end does.
\* Each brings the list of agents, too.
ExecutionPolled(m) ==
    /\ m \in Sent("poll")
    /\ IF m.cancelled THEN net' = Done(m) /\ UNCHANGED <<pg, store, skipLeft>>
       ELSE \E stop \in {FALSE, m.status = "done"} :
            Settle(pg, [pg EXCEPT !.execution = [id |-> m.id, status |-> m.status],
                                  !.polling = @ /\ ~ stop, !.agents = TRUE],
                    store, Done(m), FALSE)
    /\ UNCHANGED <<srv, pddlOps>>

(***************************************************************************)
(* Realtime sessions                                                       *)
(***************************************************************************)
handleStartRealtime ==
    /\ canStartRealtime(pg) /\ Op
    /\ Settle(pg, [pg EXCEPT !.isStarting = TRUE, !.draft.selectedAgentIds = Resolved(pg)], store,
              net \cup {Request("start", 0)}, FALSE)
    /\ UNCHANGED srv

RealtimeStarted(m) ==
    /\ m \in Sent("start")
    /\ \/ LET s == Cardinality({i \in 1 .. MaxSessions : srv.sessions[i] # "none"}) + 1
          IN /\ s <= MaxSessions
             /\ srv' = [srv EXCEPT !.sessions[s] = "running"]
             /\ Settle(pg, [pg EXCEPT !.isStarting = FALSE, !.draft.realtimeSessionId = s,
                                      !.session = [id |-> s, status |-> "running"]],
                       store, Done(m), FALSE)
       \/ Settle(pg, [pg EXCEPT !.isStarting = FALSE], store, Done(m), FALSE) /\ UNCHANGED srv
    /\ UNCHANGED pddlOps

handleStopRealtime ==
    /\ StopRealtimeButton(pg) /\ Op
    /\ Settle(pg, [pg EXCEPT !.isStopping = TRUE], store,
              net \cup {Request("stop", pg.draft.realtimeSessionId)}, FALSE)
    /\ UNCHANGED srv

\* Stopped, or missing: the id of the page is cleared, whatever it is by now.
RealtimeStopped(m) ==
    /\ m \in Sent("stop")
    /\ \/ /\ srv' = [srv EXCEPT !.sessions[m.id] = IF @ = "gone" THEN @ ELSE "stopped"]
          /\ Settle(pg, [pg EXCEPT !.isStopping = FALSE, !.draft.realtimeSessionId = 0,
                         !.session = IF srv.sessions[m.id] = "gone" THEN NoSession
                                     ELSE [id |-> m.id, status |-> "stopped"]],
                    store, Done(m), FALSE)
       \/ Settle(pg, [pg EXCEPT !.isStopping = FALSE], store, Done(m), FALSE) /\ UNCHANGED srv
    /\ UNCHANGED pddlOps

pollRealtime ==
    /\ pg.draft.realtimeSessionId # 0 /\ Cardinality(Sent("session")) < MaxPolls
    /\ Send([Request("session", pg.draft.realtimeSessionId)
                EXCEPT !.status = srv.sessions[pg.draft.realtimeSessionId]])
    /\ UNCHANGED <<pg, store, skipLeft, srv, pddlOps>>

RealtimePolled(m) ==
    /\ m \in Sent("session")
    /\ IF m.cancelled THEN net' = Done(m) /\ UNCHANGED <<pg, store, skipLeft>>
       ELSE Settle(pg, IF m.status = "gone"
                       THEN [pg EXCEPT !.session = NoSession, !.draft.realtimeSessionId = 0]
                       ELSE [pg EXCEPT !.session = [id |-> m.id, status |-> m.status]],
                   store, Done(m), FALSE)
    /\ UNCHANGED <<srv, pddlOps>>

\* The cards of a session are shown, with their reset button, while one is loaded.
handleResetRealtimeMonitorCard ==
    /\ MonitorCards(pg) /\ Sent("reset") = {} /\ Op
    /\ Send(Request("reset", pg.draft.realtimeSessionId))
    /\ UNCHANGED <<pg, store, skipLeft, srv>>

MonitorCardReset(m) ==
    /\ m \in Sent("reset")
    /\ IF srv.sessions[m.id] = "gone" THEN net' = Done(m) /\ UNCHANGED <<pg, store, skipLeft>>
       ELSE Settle(pg, [pg EXCEPT !.session = [id |-> m.id, status |-> srv.sessions[m.id]]],
                   store, Done(m), FALSE)
    /\ UNCHANGED <<srv, pddlOps>>

(***************************************************************************)
(* The server and other clients                                            *)
(***************************************************************************)
RunEnds ==
    /\ \E e \in 1 .. MaxRuns : srv.runs[e] = "running" /\ srv' = [srv EXCEPT !.runs[e] = "done"]
    /\ UNCHANGED <<pg, store, skipLeft, net, pddlOps>>

\* Sessions are kept in the memory of the server.
ServerRestarts ==
    /\ \E i \in 1 .. MaxSessions : srv.sessions[i] \in {"running", "stopped"}
    /\ Op
    /\ srv' = [srv EXCEPT !.sessions = [i \in 1 .. MaxSessions |->
                                            IF @[i] = "none" THEN "none" ELSE "gone"]]
    /\ UNCHANGED <<pg, store, skipLeft, net>>

TaskDeleted ==
    /\ Op
    /\ \E t \in srv.trees : srv' = [srv EXCEPT !.trees = @ \ {t}]
    /\ UNCHANGED <<pg, store, skipLeft, net>>

(***************************************************************************)
(* Specification                                                           *)
(***************************************************************************)
NoDrafts == [drafts |-> [td \in Scopes |-> Null], last |-> Null]

\* What an earlier visit may have left: nothing, or a planned problem of td.
EarlierVisit(td, t) ==
    writeStoredDraft(NoDrafts, td,
        [EmptyDraft EXCEPT !.selectedBTIds = <<t>>, !.selectedAgentIds = TRUE, !.goalState = td,
                           !.plan = [td |-> td, is_valid |-> TRUE], !.realtimeGoals = TRUE])

PddlInit ==
    /\ pddlOps = 0 /\ skipLeft = FALSE
    /\ \E owner \in [Tasks -> Scopes] :
        srv = [trees |-> Tasks, tds |-> Range(owner) \ {Null}, owner |-> owner,
               runs |-> [i \in 1 .. MaxRuns |-> "none"],
               sessions |-> [i \in 1 .. MaxSessions |-> "none"]]
    /\ \E s \in {NoDrafts} \cup {EarlierVisit(srv.owner[t], t) : t \in {u \in Tasks : srv.owner[u] # Null}} :
        \E r \in {Mounted(s)} : pg = r.new /\ store = r.store /\ net = r.net

PddlUser ==
    \/ Reload \/ toggleAgent \/ setRealtimeGoals
    \/ \E t \in Tasks : handleToggleBT(t)
    \/ \E g \in Scopes : setGoalState(g)
    \/ \E td \in Distributors : handleSelectDistributor(td) \/ handleDeleteTd(td)
    \/ \E td \in Distributors, t \in Tasks : ImportApplied(td, <<t>>)
    \/ handleCreateTd \/ handleSolve \/ handleExecute \/ handleCancelExecution
    \/ handleStartRealtime \/ handleStopRealtime \/ handleResetRealtimeMonitorCard

PddlAnswer ==
    \E m \in net :
        \/ TaskFetched(m) \/ TdCreated(m) \/ TdDeleted(m) \/ Solved(m) \/ Executed(m)
        \/ ExecutionPolled(m) \/ RealtimeStarted(m) \/ RealtimeStopped(m)
        \/ RealtimePolled(m) \/ MonitorCardReset(m)

PddlNext ==
    \/ PddlUser \/ PddlAnswer \/ loadData \/ loadDistributors \/ pollExecution \/ pollRealtime
    \/ RunEnds \/ ServerRestarts \/ TaskDeleted

(***************************************************************************)
(* Properties                                                              *)
(***************************************************************************)
PddlTypeOK ==
    /\ pg.td \in Scopes /\ pg.draft \in PDDLDraftState
    /\ pg.treeList \subseteq Tasks /\ pg.distributors \subseteq Distributors
    /\ store.drafts \in [Scopes -> PDDLDraftState \cup {Null}] /\ store.last \in Scopes
    /\ pddlOps \in 0 .. MaxPddlOps

\* The goals on the page and those in every stored draft were typed for the
\* distributor they are shown or stored under, whatever was switched, created,
\* deleted, imported or auto-linked while requests were under way: the effects of
\* one render (persist, then reset) leave no goal of one scope in another.  The
\* exceptions are the two refs that keep the reset from what was just restored.
\* Importing a profile over the very selection it names leaves
\* skipNextSelectionResetRef set, and the next change of the selection is not reset;
\* a key that restoredSelectionKeyRef was not cleared of spares the distributor of a
\* task that is fetched late, when the selection has become that key's again.
GoalsStayInScope == ~ skipLeft =>
    /\ pg.draft.goalState \in {pg.td, Null}
    /\ \A td \in Scopes : store.drafts[td] # Null => store.drafts[td].goalState \in {td, Null}

\* The page never shows an execution after it let go of its id: no poll that was
\* under way when the selection changed, or a new plan was asked for, brings the
\* old execution back.
NoGhostExecution == pg.execution # NoExecution => pg.draft.executionId # 0

=============================================================================
