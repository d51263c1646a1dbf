------------------------------ MODULE AgentPage ------------------------------
(***************************************************************************)
(* The agent dashboard (frontend/src/pages/AgentDashboard/index.tsx) in    *)
(* one tab: the list of robot task managers, the one selected, its robot,  *)
(* the behaviour trees assigned to it, and the buttons that deploy, start, *)
(* pause, stop, reset and remove.  What the page knows are the caches of   *)
(* its queries, each refreshed at its own pace; the effects that follow a  *)
(* change keep the selection within them.  An agent has one robot, with    *)
(* the agent's id.                                                         *)
(*                                                                         *)
(* Names, capabilities, logs and telemetry are shown and nothing else;     *)
(* they are left out, as is renaming.                                      *)
(***************************************************************************)
EXTENDS Naturals, FiniteSets

CONSTANTS Agents,      \* ids of agents
          Graphs,      \* ids of behaviour trees
          Nobody,      \* null
          MaxDashOps   \* bound: what the user and the fleet do

ASSUME AgentPageAssumption == Nobody \notin Agents \cup Graphs /\ MaxDashOps \in Nat

\* Deployment statuses in the order the page lists them, and the absence of a row.
Rank == [deployed |-> 0, deploying |-> 1, pending |-> 2, failed |-> 3, outdated |-> 4]
Statuses == DOMAIN Rank
Deployable == {"pending", "failed", "outdated"}
Ready == {"deployed", "deploying"}
NoRows == [g \in Graphs |-> "none"]
Rows == [Graphs -> Statuses \cup {"none"}]

VARIABLES dash,     \* state of the component
          cache,    \* data of its queries
          calls,    \* mutations under way
          fleet,    \* the server's rows and the agents
          dashOps

dashVars == <<dash, cache, calls, fleet, dashOps>>

(***************************************************************************)
(* What the page derives from the caches c                                 *)
(***************************************************************************)
\* The connection status, when there is one, overrides the agent's own.
isAgentAlive(c, a) == IF c.live[a] = Nobody THEN a \in c.online ELSE c.live[a]

filteredAgents(c, filter) ==
    {a \in c.agents : CASE filter = "online"  -> isAgentAlive(c, a)
                        [] filter = "offline" -> ~ isAgentAlive(c, a)
                        [] filter = "saved"   -> a \in c.saved}

assignedGraphs(c, a) == IF a = Nobody THEN NoRows ELSE c.assigned[a]
Listed(c, a) == {g \in Graphs : assignedGraphs(c, a)[g] # "none"}
deployableGraphTargets(c, a) == {g \in Graphs : assignedGraphs(c, a)[g] \in Deployable}

\* The head of sortedActionGraphs: the lowest rank, then the latest update.
FirstOf(c, a, gs) ==
    {g \in gs : \A h \in gs : Rank[assignedGraphs(c, a)[g]] <= Rank[assignedGraphs(c, a)[h]]}

agentRobots(c, a) == IF a = Nobody THEN {} ELSE c.robots[a]
selectedRobotState(d, c) == CHOOSE r \in agentRobots(c, d.agent) : TRUE
selectedRobotExecuting(d, c) == d.robot # Nobody /\ selectedRobotState(d, c).task # Nobody

(***************************************************************************)
(* Effects: the pages that may follow once the effects have run            *)
(***************************************************************************)
KeepAgent(d, c) == IF d.agent \in filteredAgents(c, d.filter) THEN d.agent ELSE Nobody
KeepRobot(d, c) == IF agentRobots(c, d.agent) = {} THEN Nobody ELSE d.agent

\* Mutant: the tree stays when the agent changes.
KeepGraphOfOthers(d, c) ==
    LET listed == Listed(c, d.agent)
    IN IF listed = {} THEN {Nobody}
       ELSE IF d.graph # Nobody THEN {d.graph}
       ELSE FirstOf(c, d.agent, listed)

KeepGraph(d, c) ==
    LET listed == Listed(c, d.agent)
    IN IF listed = {} THEN {Nobody}
       ELSE IF d.graph \in listed THEN {d.graph}
       ELSE FirstOf(c, d.agent, listed)

Settles(old, d, c) ==
    LET e == [d EXCEPT !.agent = KeepAgent(d, c)]
        moved == e.agent # old.agent
    IN {[e EXCEPT !.robot = KeepRobot(e, c), !.graph = g,
                  !.tab = IF moved THEN "actions" ELSE @,
                  !.notice = @ /\ ~ moved] : g \in KeepGraph(e, c)}

Show(d) == dash' \in Settles(dash, d, cache)
Learn(c) == cache' = c /\ dash' \in Settles(dash, dash, c)
DashOp == dashOps < MaxDashOps /\ dashOps' = dashOps + 1

(***************************************************************************)
(* Queries: each reads the server again at any time                        *)
(***************************************************************************)
Refresh(c) == c # cache /\ Learn(c) /\ UNCHANGED <<calls, fleet, dashOps>>

\* Offline agents are listed when they have a template.
FetchAgents ==
    LET shown == {a \in fleet.rows : a \in fleet.online \/ a \in fleet.saved
                                     \/ \E g \in fleet.trees : fleet.assigned[a][g] # "none"}
    IN Refresh([cache EXCEPT !.agents = shown, !.online = fleet.online \cap shown,
                             !.saved = fleet.saved \cap shown])

FetchConnections ==
    Refresh([cache EXCEPT !.live = [a \in Agents |-> IF a \in fleet.rows THEN a \in fleet.online
                                                     ELSE Nobody]])

FetchAssigned ==
    /\ dash.agent # Nobody
    /\ Refresh([cache EXCEPT !.assigned[dash.agent] = fleet.assigned[dash.agent]])

FetchRobots ==
    /\ dash.agent # Nobody
    /\ Refresh([cache EXCEPT !.robots[dash.agent] =
                    {[is_online |-> dash.agent \in fleet.online, task |-> fleet.task[dash.agent]]}])

\* A tree that cannot be read makes the page select another assigned one.
FetchGraph ==
    /\ dash.graph # Nobody
    /\ IF dash.graph \in fleet.trees
       THEN Refresh([cache EXCEPT !.loaded = @ \cup {dash.graph}])
       ELSE /\ cache' = [cache EXCEPT !.loaded = @ \ {dash.graph}]
            /\ \E g \in FirstOf(cache, dash.agent, Listed(cache, dash.agent) \ {dash.graph}) \cup {Nobody} :
                /\ g = Nobody => Listed(cache, dash.agent) = {dash.graph}
                /\ dash' \in Settles(dash, [dash EXCEPT !.graph = g], cache)
            /\ UNCHANGED <<calls, fleet, dashOps>>

FetchExecutability ==
    /\ dash.graph # Nobody /\ dash.robot # Nobody
    /\ \E can \in {FALSE, dash.robot \in fleet.online} :
        Refresh([cache EXCEPT !.executable =
                    IF can THEN @ \cup {<<dash.graph, dash.robot>>} ELSE @ \ {<<dash.graph, dash.robot>>}])

(***************************************************************************)
(* Selection                                                               *)
(***************************************************************************)
setStatusFilter ==
    /\ DashOp
    /\ \E f \in {"online", "offline", "saved"} \ {dash.filter} : Show([dash EXCEPT !.filter = f])
    /\ UNCHANGED <<cache, calls, fleet>>

setSelectedAgentId ==
    /\ DashOp
    /\ \E a \in filteredAgents(cache, dash.filter) \ {dash.agent} : Show([dash EXCEPT !.agent = a])
    /\ UNCHANGED <<cache, calls, fleet>>

setDetailViewTab ==
    /\ dash.agent # Nobody
    /\ \E v \in {"actions", "behaviorTree"} \ {dash.tab} : Show([dash EXCEPT !.tab = v])
    /\ UNCHANGED <<cache, calls, fleet, dashOps>>

\* What the behaviour tree tab offers needs the tree itself.
TreeShown(d) == d.tab = "behaviorTree" /\ d.graph \in cache.loaded

setSelectedGraphId ==
    /\ TreeShown(dash) /\ DashOp
    /\ \E g \in Listed(cache, dash.agent) \ {dash.graph} : Show([dash EXCEPT !.graph = g])
    /\ UNCHANGED <<cache, calls, fleet>>

(***************************************************************************)
(* Starting a tree.  sure: the flow saw the server answer that the tree    *)
(* is deployed or being deployed, or a deploy of it succeed.               *)
(***************************************************************************)
Call(op, g, a) == [op |-> op, graph |-> g, agent |-> a, status |-> "none", sure |-> FALSE,
                   left |-> {}, counts |-> [ok |-> 0, skipped |-> 0, failed |-> 0]]
ExecutionOps == {"refresh", "deploy", "recheck", "execute", "pause", "cancel", "reset"}
isExecutionLoading == \E m \in calls : m.op \in ExecutionOps
Replace(m, n) == calls' = (calls \ {m}) \cup {n}
Finish(m) == calls' = calls \ {m}

StartButton(d, c) ==
    /\ TreeShown(d) /\ d.robot # Nobody /\ ~ selectedRobotExecuting(d, c) /\ ~ isExecutionLoading
    /\ selectedRobotState(d, c).is_online /\ <<d.graph, d.robot>> \in c.executable

executeGraph ==
    /\ StartButton(dash, cache) /\ DashOp
    /\ calls' = calls \cup {[Call("refresh", dash.graph, dash.robot)
                                EXCEPT !.status = assignedGraphs(cache, dash.agent)[dash.graph]]}
    /\ UNCHANGED <<dash, cache, fleet>>

\* The cached status is used when the refresh fails or there is no row.
StatusRefreshed(m) ==
    /\ m.op = "refresh"
    /\ \E s \in {m.status, fleet.assigned[m.agent][m.graph]} \ {"none"} :
        Replace(m, [m EXCEPT !.status = s, !.op = IF s \in Ready THEN "execute" ELSE "deploy",
                             !.sure = s \in Ready /\ s = fleet.assigned[m.agent][m.graph]])
    /\ UNCHANGED <<dash, cache, fleet, dashOps>>

\* A deploy of g to a: the agent accepts or refuses it, or has not answered yet.
deployActionGraph(m, s) ==
    IF m.graph \in fleet.trees /\ m.agent \in fleet.rows
    THEN s \in {"failed", "deploying"} \cup {x \in {"deployed"} : m.agent \in fleet.online}
         /\ fleet' = [fleet EXCEPT !.assigned[m.agent][m.graph] = s]
    ELSE s = "failed" /\ UNCHANGED fleet

Deployed(m) ==
    /\ m.op = "deploy"
    /\ \E s \in Statuses, answered \in BOOLEAN :
        /\ deployActionGraph(m, s)
        /\ s = "deploying" => ~ answered
        /\ Replace(m, IF answered /\ s = "deployed" THEN [m EXCEPT !.op = "execute", !.sure = TRUE]
                      ELSE [m EXCEPT !.op = "recheck"])
    /\ UNCHANGED <<dash, cache, dashOps>>

\* Mutant: the start goes on whatever the status is.
RecheckedAnyway(m) ==
    /\ m.op = "recheck"
    /\ Replace(m, [m EXCEPT !.op = "execute", !.sure = fleet.assigned[m.agent][m.graph] \in Ready])
    /\ UNCHANGED <<dash, cache, fleet, dashOps>>

\* After an error the status is asked once more, and the start given up unless it helps.
Rechecked(m) ==
    /\ m.op = "recheck"
    /\ \/ /\ fleet.assigned[m.agent][m.graph] \in Ready
          /\ Replace(m, [m EXCEPT !.op = "execute", !.sure = TRUE])
       \/ Finish(m)
    /\ UNCHANGED <<dash, cache, fleet, dashOps>>

\* The server deploys again before it starts the task, and refuses without a row.
Started(m) ==
    /\ m.op = "execute" /\ Finish(m)
    /\ \/ /\ fleet.assigned[m.agent][m.graph] # "none" /\ m.agent \in fleet.online
          /\ fleet' = [fleet EXCEPT !.assigned[m.agent][m.graph] = "deployed",
                                    !.task[m.agent] = IF @ = Nobody THEN m.graph ELSE @]
       \/ UNCHANGED fleet
    /\ UNCHANGED <<dash, cache, dashOps>>

(***************************************************************************)
(* The other buttons                                                       *)
(***************************************************************************)
StopButtons(d, c) ==
    /\ TreeShown(d) /\ d.robot # Nobody /\ selectedRobotExecuting(d, c) /\ ~ isExecutionLoading
ResetButton(d, c) ==
    /\ TreeShown(d) /\ d.robot # Nobody /\ ~ selectedRobotExecuting(d, c) /\ ~ isExecutionLoading

pauseTask ==
    /\ StopButtons(dash, cache) /\ DashOp
    /\ calls' = calls \cup {Call("pause", selectedRobotState(dash, cache).task, dash.robot)}
    /\ UNCHANGED <<dash, cache, fleet>>
cancelTask ==
    /\ StopButtons(dash, cache) /\ DashOp
    /\ calls' = calls \cup {Call("cancel", selectedRobotState(dash, cache).task, dash.robot)}
    /\ UNCHANGED <<dash, cache, fleet>>
resetState ==
    /\ ResetButton(dash, cache) /\ DashOp
    /\ calls' = calls \cup {Call("reset", dash.graph, dash.agent)}
    /\ UNCHANGED <<dash, cache, fleet>>

\* A task that ended meanwhile is not touched; a reset clears whatever runs by now.
Controlled(m) ==
    /\ m.op \in {"pause", "cancel", "reset"} /\ Finish(m)
    /\ \/ /\ m.op = "cancel" => fleet.task[m.agent] = m.graph
          /\ m.op # "pause"
          /\ fleet' = [fleet EXCEPT !.task[m.agent] = Nobody]
       \/ UNCHANGED fleet
    /\ UNCHANGED <<dash, cache, dashOps>>

deployGraph ==
    /\ TreeShown(dash) /\ assignedGraphs(cache, dash.agent)[dash.graph] \in Deployable
    /\ ~ \E m \in calls : m.op = "deployOne"
    /\ DashOp
    /\ calls' = calls \cup {Call("deployOne", dash.graph, dash.agent)}
    /\ UNCHANGED <<dash, cache, fleet>>

OneDeployed(m) ==
    /\ m.op = "deployOne" /\ Finish(m)
    /\ \E s \in Statuses : deployActionGraph(m, s)
    /\ UNCHANGED <<dash, cache, dashOps>>

removeAssignedGraph ==
    /\ TreeShown(dash) /\ ~ \E m \in calls : m.op = "remove"
    /\ DashOp
    /\ \E g \in Listed(cache, dash.agent) : calls' = calls \cup {Call("remove", g, dash.agent)}
    /\ UNCHANGED <<dash, cache, fleet>>

\* Mutant: the row stays, without a status.
RemovedAsNull(m) ==
    /\ m.op = "remove" /\ Finish(m)
    /\ fleet' = [fleet EXCEPT !.assigned[m.agent][m.graph] = Nobody]
    /\ UNCHANGED <<dash, cache, dashOps>>

Removed(m) ==
    /\ m.op = "remove" /\ Finish(m)
    /\ fleet' = [fleet EXCEPT !.assigned[m.agent][m.graph] = "none"]
    /\ UNCHANGED <<dash, cache, dashOps>>

\* One tree after the other, for the agent and the list of the click.
handleDeployUpdateAll ==
    /\ TreeShown(dash) /\ ~ dash.isDeployingAll
    /\ deployableGraphTargets(cache, dash.agent) # {}
    /\ DashOp
    /\ dash' = [dash EXCEPT !.isDeployingAll = TRUE, !.notice = FALSE]
    /\ calls' = calls \cup {[Call("deployAll", Nobody, dash.agent)
                                EXCEPT !.left = deployableGraphTargets(cache, dash.agent)]}
    /\ UNCHANGED <<cache, fleet>>

DeployAllStep(m) ==
    /\ m.op = "deployAll" /\ m.left # {}
    /\ \E g \in m.left :
        LET rest == [m EXCEPT !.left = @ \ {g}]
        IN \/ g \notin fleet.trees /\ Replace(m, [rest EXCEPT !.counts.skipped = @ + 1]) /\ UNCHANGED fleet
           \/ /\ g \in fleet.trees
              /\ \E s \in Statuses : /\ deployActionGraph([m EXCEPT !.graph = g], s)
                                     /\ Replace(m, IF s = "deployed" THEN [rest EXCEPT !.counts.ok = @ + 1]
                                                   ELSE [rest EXCEPT !.counts.failed = @ + 1])
    /\ UNCHANGED <<dash, cache, dashOps>>

DeployAllDone(m) ==
    /\ m.op = "deployAll" /\ m.left = {} /\ Finish(m)
    /\ dash' = [dash EXCEPT !.isDeployingAll = FALSE, !.notice = TRUE]
    /\ UNCHANGED <<cache, fleet, dashOps>>

\* The list offers to delete an agent that it shows offline.
deleteAgent ==
    /\ DashOp
    /\ \E a \in filteredAgents(cache, dash.filter) :
        /\ ~ isAgentAlive(cache, a)
        /\ calls' = calls \cup {Call("deleteAgent", Nobody, a)}
    /\ UNCHANGED <<dash, cache, fleet>>

AgentDeleted(m) ==
    /\ m.op = "deleteAgent" /\ Finish(m)
    /\ fleet' = [fleet EXCEPT !.rows = @ \ {m.agent}, !.saved = @ \ {m.agent},
                              !.assigned[m.agent] = NoRows]
    /\ Show(IF dash.agent = m.agent THEN [dash EXCEPT !.agent = Nobody] ELSE dash)
    /\ UNCHANGED <<cache, dashOps>>

saveCapabilityTemplate ==
    /\ dash.agent # Nobody /\ DashOp
    /\ fleet' = [fleet EXCEPT !.saved = @ \cup ({dash.agent} \cap fleet.rows)]
    /\ UNCHANGED <<dash, cache, calls>>

(***************************************************************************)
(* The fleet                                                               *)
(***************************************************************************)
FleetChanges ==
    /\ \/ \E a \in Agents : DashOp /\ a \in fleet.online /\ fleet' = [fleet EXCEPT !.online = @ \ {a}]
       \/ \E a \in Agents : DashOp /\ a \notin fleet.online
                            /\ fleet' = [fleet EXCEPT !.online = @ \cup {a}, !.rows = @ \cup {a}]
       \/ \E g \in fleet.trees : DashOp /\ fleet' = [fleet EXCEPT !.trees = @ \ {g}]
       \/ \E a \in Agents : /\ fleet.task[a] # Nobody
                            /\ fleet' = [fleet EXCEPT !.task[a] = Nobody] /\ UNCHANGED dashOps
       \/ \E a \in Agents, g \in Graphs : \* a deploy nobody waits for any more ends
            /\ fleet.assigned[a][g] = "deploying" /\ UNCHANGED dashOps
            /\ \E s \in {"deployed", "failed"} : fleet' = [fleet EXCEPT !.assigned[a][g] = s]
    /\ UNCHANGED <<dash, cache, calls>>

(***************************************************************************)
(* Specification                                                           *)
(***************************************************************************)
\* One agent with every graph, which none of its robots has yet, the others with one.
\* Agents and graphs are alike: any choice of the two gives the same behaviours.
SomeFleet ==
    LET first == CHOOSE a \in Agents : TRUE
        g == CHOOSE g \in Graphs : TRUE
    IN [rows |-> Agents, online |-> Agents, saved |-> {}, trees |-> Graphs,
        assigned |-> [[b \in Agents |-> [NoRows EXCEPT ![g] = "outdated"]]
                           EXCEPT ![first] = [h \in Graphs |-> "pending"]],
        task |-> [a \in Agents |-> Nobody]]

AgentInit ==
    /\ dashOps = 0 /\ calls = {}
    /\ dash = [agent |-> Nobody, robot |-> Nobody, graph |-> Nobody, filter |-> "online",
               tab |-> "actions", notice |-> FALSE, isDeployingAll |-> FALSE]
    /\ cache = [agents |-> {}, online |-> {}, saved |-> {}, live |-> [a \in Agents |-> Nobody],
                assigned |-> [a \in Agents |-> NoRows], robots |-> [a \in Agents |-> {}],
                loaded |-> {}, executable |-> {}]
    /\ fleet = SomeFleet

AgentUser ==
    \/ setStatusFilter \/ setSelectedAgentId \/ setDetailViewTab \/ setSelectedGraphId
    \/ executeGraph \/ pauseTask \/ cancelTask \/ resetState \/ deployGraph \/ removeAssignedGraph
    \/ handleDeployUpdateAll \/ deleteAgent \/ saveCapabilityTemplate

AgentQueries ==
    FetchAgents \/ FetchConnections \/ FetchAssigned \/ FetchRobots \/ FetchGraph \/ FetchExecutability

AgentAnswers ==
    \E m \in calls :
        \/ StatusRefreshed(m) \/ Deployed(m) \/ Rechecked(m) \/ Started(m) \/ Controlled(m)
        \/ OneDeployed(m) \/ Removed(m) \/ DeployAllStep(m) \/ DeployAllDone(m) \/ AgentDeleted(m)

AgentNext == AgentUser \/ AgentQueries \/ AgentAnswers \/ FleetChanges

(***************************************************************************)
(* Properties                                                              *)
(***************************************************************************)
AgentTypeOK ==
    /\ dash.agent \in Agents \cup {Nobody} /\ dash.graph \in Graphs \cup {Nobody}
    /\ fleet.assigned \in [Agents -> Rows] /\ cache.assigned \in [Agents -> Rows]
    /\ fleet.task \in [Agents -> Graphs \cup {Nobody}]
    /\ \A m \in calls : m.agent \in Agents

\* Whatever order the lists, statuses and assignments arrive in, and whatever is
\* deleted, removed or filtered away meanwhile: the agent whose details are open is
\* one of the listed ones, the robot that the control buttons address is that
\* agent's, and the tree they start is one assigned to that agent, not to the agent
\* looked at before.
SelectionCoherent ==
    /\ dash.agent # Nobody => dash.agent \in filteredAgents(cache, dash.filter)
    /\ dash.robot \in {dash.agent, Nobody}
    /\ dash.graph = Nobody <=> Listed(cache, dash.agent) = {}
    /\ dash.graph # Nobody => dash.graph \in Listed(cache, dash.agent)

\* A start that found its tree pending, failed or outdated is sent on only after a
\* deploy of it succeeded, or the server said, after the deploy's error, that the
\* tree is deployed or being deployed.
StartVouched ==
    \A m \in calls : m.op = "execute" /\ m.status \in Deployable => m.sure

=============================================================================
