---------------------------- MODULE ResourceHolds ----------------------------
(***************************************************************************)
(* The resource section of GlobalStateManager (state/manager.go): which    *)
(* runtime task holds which resource instance, indexed three ways.         *)
(*                                                                         *)
(*   resourceHolds      resource -> hold             the authority         *)
(*   planResources      plan -> resource -> hold     index used at plan end*)
(*   taskRuntimeScopes  task -> context with HeldResources, the index used *)
(*                      when a task ends                                   *)
(*                                                                         *)
(* Every exported method is one critical section of m.mu, hence one action.*)
(* The callers are the dispatcher (scheduler.go), the QUIC handlers of     *)
(* heartbeats and task updates (raw_quic_handler.go) and the plan executor *)
(* (plan_executor.go); they run in goroutines of their own and reach the   *)
(* manager in any order, so here any call may follow any other.            *)
(***************************************************************************)
EXTENDS FiniteSets

CONSTANTS Tasks,      \* runtime task identifiers
          Agents,     \* agents (robot and agent are one: the 1:1 model)
          Resources,  \* resource instances
          Plans,      \* plan identifiers (the planning problem's ID)
          AgentOf,    \* AgentOf[t]: the agent task t runs on
          PlanOf,     \* PlanOf[t]: t's PlanProblemID, or NoPlan
          NoTask, NoAgent, NoPlan   \* the empty strings of the three types

ASSUME ResourceAssumption ==
    /\ AgentOf \in [Tasks -> Agents]
    /\ PlanOf \in [Tasks -> Plans \cup {NoPlan}]
    /\ NoTask \notin Tasks
    /\ NoAgent \notin Agents
    /\ NoPlan \notin Plans

VARIABLES resourceHolds,      \* m.resourceHolds, NoHold where the key is absent
          planResources,      \* m.planResources; an absent plan has no holds
          taskRuntimeScopes,  \* keys of m.taskRuntimeScopes
          heldResources,      \* HeldResources of each registered scope
          planningStates,     \* keys of m.planningStates
          occupied            \* resources whose "<name> occupied" variable is "true"

planVars  == <<planningStates, occupied>>
scopeVars == <<taskRuntimeScopes, heldResources>>
resourceVars == <<resourceHolds, planResources, taskRuntimeScopes,
                  heldResources, planningStates, occupied>>

\* PlanResourceHold, without the fields that only label it for the UI.
Hold == [plan : Plans \cup {NoPlan}, agent : Agents, task : Tasks]

\* Go's zero value, which a lookup of an absent key returns.
NoHold == [plan |-> NoPlan, agent |-> NoAgent, task |-> NoTask]

Held(r) == resourceHolds[r] # NoHold

ResourceInit ==
    /\ resourceHolds = [r \in Resources |-> NoHold]
    /\ planResources = [p \in Plans |-> [r \in Resources |-> NoHold]]
    /\ taskRuntimeScopes = {}
    /\ heldResources = [t \in Tasks |-> {}]
    /\ planningStates = {}
    /\ occupied = [p \in Plans |-> {}]

-----------------------------------------------------------------------------
(* Plan life cycle: InitPlanningState, ReleaseAllPlanResources and         *)
(* ClearPlanningState, called by runPlanExecution.                         *)

\* The problem's initial state declares every resource free.
InitPlanningState(p) ==
    /\ planningStates' = planningStates \cup {p}
    /\ occupied' = [occupied EXCEPT ![p] = {}]
    /\ planResources' = [planResources EXCEPT ![p] = [r \in Resources |-> NoHold]]
    /\ UNCHANGED <<resourceHolds, scopeVars>>

ClearPlanningState(p) ==
    /\ planningStates' = planningStates \ {p}
    /\ occupied' = [occupied EXCEPT ![p] = {}]
    /\ planResources' = [planResources EXCEPT ![p] = [r \in Resources |-> NoHold]]
    /\ UNCHANGED <<resourceHolds, scopeVars>>

\* The resources the plan's index names; they are freed without a look at
\* the authoritative hold.
IndexedBy(p) == {r \in Resources : planResources[p][r] # NoHold}

\* Mutant: the scopes keep the freed resources.
ReleaseAllPlanResourcesKeepsScopes(p) ==
    /\ resourceHolds' = [r \in Resources |-> IF r \in IndexedBy(p) THEN NoHold
                                             ELSE resourceHolds[r]]
    /\ occupied' = [occupied EXCEPT ![p] = @ \ IndexedBy(p)]
    /\ planResources' = [planResources EXCEPT ![p] = [r \in Resources |-> NoHold]]
    /\ UNCHANGED <<scopeVars, planningStates>>

ReleaseAllPlanResources(p) ==
    /\ resourceHolds' = [r \in Resources |-> IF r \in IndexedBy(p) THEN NoHold
                                             ELSE resourceHolds[r]]
    /\ heldResources' = [t \in Tasks |->
           heldResources[t] \ {r \in IndexedBy(p) : planResources[p][r].task = t}]
    /\ occupied' = [occupied EXCEPT ![p] = @ \ IndexedBy(p)]
    /\ planResources' = [planResources EXCEPT ![p] = [r \in Resources |-> NoHold]]
    /\ UNCHANGED <<taskRuntimeScopes, planningStates>>

-----------------------------------------------------------------------------
(* Task scopes.                                                            *)

\* The dispatcher registers with a fresh, empty HeldResources map.
RegisterTaskRuntime(t) ==
    /\ taskRuntimeScopes' = taskRuntimeScopes \cup {t}
    /\ heldResources' = [heldResources EXCEPT ![t] = {}]
    /\ UNCHANGED <<resourceHolds, planResources, planVars>>

\* Drops the scope; it releases nothing.
UnregisterTaskRuntime(t) ==
    /\ taskRuntimeScopes' = taskRuntimeScopes \ {t}
    /\ heldResources' = [heldResources EXCEPT ![t] = {}]
    /\ UNCHANGED <<resourceHolds, planResources, planVars>>

-----------------------------------------------------------------------------
(* Acquiring and releasing.                                                *)

\* Mutant: a task without a plan is indexed under the empty plan ID.
RecordHoldOfNoPlan(t, a, r) ==
    LET p    == PlanOf[t]
        hold == [plan |-> p, agent |-> a, task |-> t]
    IN  /\ resourceHolds' = [resourceHolds EXCEPT ![r] = hold]
        /\ planResources' = [q \in DOMAIN planResources \cup {p} |-> [x \in Resources |->
               IF q = p /\ x = r THEN hold
               ELSE IF q \in DOMAIN planResources THEN planResources[q][x] ELSE NoHold]]
        /\ heldResources' = IF t \in taskRuntimeScopes
               THEN [heldResources EXCEPT ![t] = @ \cup {r}] ELSE heldResources
        /\ UNCHANGED <<taskRuntimeScopes, planVars>>

\* The update both acquiring methods make once they found r free.
RecordHold(t, a, r) ==
    LET p    == PlanOf[t]
        hold == [plan |-> p, agent |-> a, task |-> t]
    IN  /\ resourceHolds' = [resourceHolds EXCEPT ![r] = hold]
        /\ planResources' = [q \in Plans |-> IF q = p
               THEN [planResources[q] EXCEPT ![r] = hold] ELSE planResources[q]]
        /\ heldResources' = IF t \in taskRuntimeScopes
               THEN [heldResources EXCEPT ![t] = @ \cup {r}] ELSE heldResources
        /\ occupied' = [q \in Plans |-> IF q = p /\ p \in planningStates
               THEN occupied[q] \cup {r} ELSE occupied[q]]
        /\ UNCHANGED <<taskRuntimeScopes, planningStates>>

\* Mutants: a release forgets the plan's index, or its occupancy variable.
DropHoldsKeepsIndex(R) ==
    /\ resourceHolds' = [r \in Resources |-> IF r \in R THEN NoHold
                                             ELSE resourceHolds[r]]
    /\ UNCHANGED <<planResources, taskRuntimeScopes, planVars>>

DropHoldsKeepsOccupancy(R) ==
    /\ resourceHolds' = [r \in Resources |-> IF r \in R THEN NoHold
                                             ELSE resourceHolds[r]]
    /\ planResources' = [p \in Plans |-> [r \in Resources |->
           IF r \in R /\ resourceHolds[r].plan = p THEN NoHold
           ELSE planResources[p][r]]]
    /\ UNCHANGED <<taskRuntimeScopes, planVars>>

\* The update of the releasing methods, for a set of held resources.
DropHolds(R) ==
    /\ resourceHolds' = [r \in Resources |-> IF r \in R THEN NoHold
                                             ELSE resourceHolds[r]]
    /\ planResources' = [p \in Plans |-> [r \in Resources |->
           IF r \in R /\ resourceHolds[r].plan = p THEN NoHold
           ELSE planResources[p][r]]]
    /\ occupied' = [p \in Plans |->
           occupied[p] \ {r \in R : resourceHolds[r].plan = p}]
    /\ UNCHANGED <<taskRuntimeScopes, planningStates>>

OwnedBy(r, t, a) == resourceHolds[r].agent = a /\ resourceHolds[r].task = t

\* Outcome of TryAcquirePlanResource: r is free or already the caller's own.
CanAcquire(t, r) == ~Held(r) \/ OwnedBy(r, t, AgentOf[t])

\* Mutant: whoever asks gets the resource.
TryAcquireHeldResource(t, r) == RecordHold(t, AgentOf[t], r)

TryAcquirePlanResource(t, r) ==
    \/ ~Held(r) /\ RecordHold(t, AgentOf[t], r)
    \/ Held(r) /\ UNCHANGED resourceVars

\* HandleTaskResourceEvent(acquired = true), reported by agent a.  Without a
\* registered scope, or with r held by anyone, nothing changes.
HandleAcquireEvent(t, a, r) ==
    IF t \in taskRuntimeScopes /\ ~Held(r)
    THEN RecordHold(t, a, r)
    ELSE UNCHANGED resourceVars

\* HandleTaskResourceEvent(acquired = false): only the holder may release.
HandleReleaseEvent(t, a, r) ==
    IF t \in taskRuntimeScopes /\ Held(r) /\ OwnedBy(r, t, a)
    THEN /\ DropHolds({r})
         /\ heldResources' = [heldResources EXCEPT ![t] = @ \ {r}]
    ELSE UNCHANGED resourceVars

\* What ReleaseTaskResources(t, a) frees: the resources of t's scope that
\* agent a holds.
Releasable(t, a) ==
    {r \in heldResources[t] : Held(r) /\ resourceHolds[r].agent = a}

ReleaseTaskResources(t, a) ==
    /\ DropHolds(Releasable(t, a))
    /\ heldResources' = [heldResources EXCEPT ![t] = {}]

-----------------------------------------------------------------------------
ResourceNext ==
    \/ \E p \in Plans : InitPlanningState(p)
    \/ \E p \in Plans : ClearPlanningState(p)
    \/ \E p \in Plans : ReleaseAllPlanResources(p)
    \/ \E t \in Tasks : RegisterTaskRuntime(t)
    \/ \E t \in Tasks : UnregisterTaskRuntime(t)
    \/ \E t \in Tasks, r \in Resources : TryAcquirePlanResource(t, r)
    \/ \E t \in Tasks, a \in Agents, r \in Resources : HandleAcquireEvent(t, a, r)
    \/ \E t \in Tasks, a \in Agents, r \in Resources : HandleReleaseEvent(t, a, r)
    \/ \E t \in Tasks, a \in Agents : ReleaseTaskResources(t, a)

ResourceSpec == ResourceInit /\ [][ResourceNext]_resourceVars

-----------------------------------------------------------------------------
(* Properties.                                                             *)

\* Type correctness: every map holds values of its Go type.
ResourceTypeOK ==
    /\ resourceHolds \in [Resources -> Hold \cup {NoHold}]
    /\ planResources \in [Plans -> [Resources -> Hold \cup {NoHold}]]
    /\ taskRuntimeScopes \in SUBSET Tasks
    /\ heldResources \in [Tasks -> SUBSET Resources]
    /\ planningStates \in SUBSET Plans
    /\ occupied \in [Plans -> SUBSET Resources]

\* A hold carries the plan of the task that took it.
HoldCarriesPlan ==
    \A r \in Resources : Held(r) => resourceHolds[r].plan = PlanOf[resourceHolds[r].task]

\* A plan's index never names a stale hold: what planResources[p] says of r
\* is what resourceHolds says of r, and that hold belongs to plan p.
\* ReleaseAllPlanResources (manager.go:2723) frees what the index names
\* without comparing it with resourceHolds, so a stale entry would free a
\* resource that another plan's task has acquired since.
PlanIndexSound ==
    \A p \in Plans, r \in Resources :
        planResources[p][r] # NoHold =>
            /\ resourceHolds[r] = planResources[p][r]
            /\ planResources[p][r].plan = p

\* A task's scope lists only resources the task itself holds now.
\* ReleaseTaskResources (manager.go:2690) compares only the agent of a hold,
\* so a stale entry would free what a later task on the same agent holds.
ScopeSound ==
    \A t \in Tasks : \A r \in heldResources[t] : resourceHolds[r].task = t

\* Only a registered scope lists resources.
ScopeRegistered ==
    \A t \in Tasks : heldResources[t] # {} => t \in taskRuntimeScopes

\* The occupancy variables that the next planning round starts from agree
\* with the plan's holds: while a plan has a planning state, r is shown as
\* occupied exactly when the plan's index holds r.
OccupancyMirrorsHolds ==
    \A p \in Plans :
        /\ p \in planningStates => occupied[p] = IndexedBy(p)
        /\ p \notin planningStates => occupied[p] = {}

\* The strengthening under which the three indexes are inductive.
ResourceInv ==
    /\ ResourceTypeOK
    /\ HoldCarriesPlan
    /\ PlanIndexSound
    /\ ScopeSound
    /\ ScopeRegistered

\* The holds implement the abstract lock: a resource changes owner only by
\* way of being free, and no step frees resources of two tasks unless both
\* belong to the plan that ends.
Lock == INSTANCE ResourceLock WITH
            owner <- [r \in Resources |-> resourceHolds[r].task]
ImplementsLock == Lock!LockSpec
=============================================================================
