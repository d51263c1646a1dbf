------------------------ MODULE ResourceHoldsProofs ------------------------
(***************************************************************************)
(* Proofs about ResourceHolds for any number of tasks, agents, resources   *)
(* and plans: the three indexes agree (ResourceInv is inductive), the      *)
(* occupancy variables mirror the holds, and the holds implement the       *)
(* abstract lock.                                                          *)
(***************************************************************************)
EXTENDS ResourceHolds, TLAPS

\* A stored hold is never mistaken for an absent one: its task is a task.
LEMMA HoldFields ==
    ASSUME NEW h \in Hold
    PROVE  h # NoHold /\ h.task \in Tasks /\ h.task # NoTask
                      /\ h.agent \in Agents /\ h.plan \in Plans \cup {NoPlan}
  BY ResourceAssumption DEF Hold, NoHold

\* The fields of the zero value.
LEMMA NoHoldFields ==
    NoHold.task = NoTask /\ NoHold.agent = NoAgent /\ NoHold.plan = NoPlan
  BY DEF NoHold

\* The record an acquiring call stores is a hold.
LEMMA NewHold ==
    ASSUME NEW t \in Tasks, NEW a \in Agents
    PROVE  [plan |-> PlanOf[t], agent |-> a, task |-> t] \in Hold
  BY ResourceAssumption DEF Hold

\* The initial state satisfies the invariant.
LEMMA InitResourceInv == ResourceInit => ResourceInv
  BY ResourceAssumption, NoHoldFields
  DEF ResourceInit, ResourceInv, ResourceTypeOK, HoldCarriesPlan, PlanIndexSound,
      ScopeSound, ScopeRegistered, Held

\* Both acquiring calls keep the indexes in agreement.
LEMMA RecordHoldKeepsInv ==
    ASSUME ResourceInv, NEW t \in Tasks, NEW a \in Agents, NEW r \in Resources,
           ~Held(r), RecordHold(t, a, r)
    PROVE  ResourceInv'
  <1> DEFINE h == [plan |-> PlanOf[t], agent |-> a, task |-> t]
  <1> USE DEF ResourceInv
  <1>1. h \in Hold /\ h.plan = PlanOf[t] /\ h.task = t
    BY NewHold
  <1>2. /\ resourceHolds' = [resourceHolds EXCEPT ![r] = h]
        /\ planResources' = [q \in Plans |-> IF q = PlanOf[t]
               THEN [planResources[q] EXCEPT ![r] = h] ELSE planResources[q]]
        /\ heldResources' = IF t \in taskRuntimeScopes
               THEN [heldResources EXCEPT ![t] = @ \cup {r}] ELSE heldResources
        /\ occupied' = [q \in Plans |-> IF q = PlanOf[t] /\ PlanOf[t] \in planningStates
               THEN occupied[q] \cup {r} ELSE occupied[q]]
        /\ taskRuntimeScopes' = taskRuntimeScopes
        /\ planningStates' = planningStates
    BY DEF RecordHold
  <1> HIDE DEF h
  <1>3. ResourceTypeOK'
    BY <1>1, <1>2 DEF ResourceTypeOK
  <1>4. HoldCarriesPlan'
    BY <1>1, <1>2 DEF HoldCarriesPlan, ResourceTypeOK, Held
  <1>5. PlanIndexSound'
    BY <1>1, <1>2 DEF PlanIndexSound, ResourceTypeOK, Held
  <1>6. ScopeSound'
    BY <1>1, <1>2, NoHoldFields, ResourceAssumption DEF ScopeSound, ResourceTypeOK, Held
  <1>7. ScopeRegistered'
    BY <1>2 DEF ScopeRegistered, ResourceTypeOK
  <1> QED BY <1>3, <1>4, <1>5, <1>6, <1>7

\* Releasing resources of one task's scope keeps the indexes in agreement.
LEMMA DropHoldsKeepsInv ==
    ASSUME ResourceInv, NEW t \in Tasks, NEW R \in SUBSET heldResources[t],
           NEW S \in SUBSET heldResources[t],
           \A r \in R : Held(r),
           DropHolds(R),
           heldResources' = [heldResources EXCEPT ![t] = S],
           S \cap R = {}
    PROVE  ResourceInv'
  <1> USE DEF ResourceInv, DropHolds
  <1>0. R \in SUBSET Resources /\ S \in SUBSET Resources
    BY DEF ResourceTypeOK
  <1>1. ResourceTypeOK'
    BY <1>0 DEF ResourceTypeOK
  <1>2. HoldCarriesPlan'
    BY <1>0 DEF HoldCarriesPlan, ResourceTypeOK, Held
  <1>3. PlanIndexSound'
    BY <1>0 DEF PlanIndexSound, ResourceTypeOK, Held
  <1>4. ScopeSound'
    BY <1>0 DEF ScopeSound, ResourceTypeOK
  <1>5. ScopeRegistered'
    BY <1>0 DEF ScopeRegistered, ResourceTypeOK
  <1> QED BY <1>1, <1>2, <1>3, <1>4, <1>5

\* Ending a plan frees exactly what its index names and keeps the indexes in
\* agreement: PlanIndexSound makes the unchecked deletes harmless.
LEMMA ReleaseAllKeepsInv ==
    ASSUME ResourceInv, NEW p \in Plans, ReleaseAllPlanResources(p)
    PROVE  ResourceInv'
  <1> USE DEF ResourceInv, ReleaseAllPlanResources, IndexedBy
  <1>1. ResourceTypeOK'
    BY DEF ResourceTypeOK
  <1>2. HoldCarriesPlan'
    BY DEF HoldCarriesPlan, ResourceTypeOK, Held
  <1>3. PlanIndexSound'
    BY NoHoldFields DEF PlanIndexSound, ResourceTypeOK, Held
  <1>4. ScopeSound'
    <2> SUFFICES ASSUME NEW t \in Tasks, NEW r \in heldResources'[t]
                 PROVE  resourceHolds'[r].task = t
      BY DEF ScopeSound
    <2>1. r \in heldResources[t] /\ r \in Resources
      BY DEF ResourceTypeOK
    <2>2. resourceHolds[r].task = t
      BY <2>1 DEF ScopeSound
    <2>3. r \notin IndexedBy(p)
      BY <2>1, <2>2 DEF PlanIndexSound, ResourceTypeOK
    <2> QED BY <2>1, <2>2, <2>3
  <1>5. ScopeRegistered'
    BY DEF ScopeRegistered, ResourceTypeOK
  <1> QED BY <1>1, <1>2, <1>3, <1>4, <1>5

\* Emptying a plan's index (at the start and at the end of an execution).
LEMMA ResetIndexKeepsInv ==
    ASSUME ResourceInv, NEW p \in Plans, NEW S \in SUBSET Plans,
           planningStates' = S,
           occupied' = [occupied EXCEPT ![p] = {}],
           planResources' = [planResources EXCEPT ![p] = [r \in Resources |-> NoHold]],
           UNCHANGED <<resourceHolds, scopeVars>>
    PROVE  ResourceInv'
  BY DEF ResourceInv, ResourceTypeOK, HoldCarriesPlan, PlanIndexSound, ScopeSound,
         ScopeRegistered, Held, scopeVars

\* Registering and unregistering a scope only empties its list.
LEMMA ScopeChangeKeepsInv ==
    ASSUME ResourceInv, NEW t \in Tasks,
           RegisterTaskRuntime(t) \/ UnregisterTaskRuntime(t)
    PROVE  ResourceInv'
  <1>1. /\ heldResources' = [heldResources EXCEPT ![t] = {}]
        /\ taskRuntimeScopes' \in {taskRuntimeScopes \cup {t}, taskRuntimeScopes \ {t}}
        /\ UNCHANGED <<resourceHolds, planResources, planningStates, occupied>>
    BY DEF planVars, RegisterTaskRuntime, UnregisterTaskRuntime
  <1> USE <1>1 DEF ResourceInv
  <1>2. ResourceTypeOK'
    BY DEF ResourceTypeOK
  <1>3. HoldCarriesPlan' /\ PlanIndexSound'
    BY DEF HoldCarriesPlan, PlanIndexSound, Held
  <1>4. ScopeSound'
    BY DEF ScopeSound, ResourceTypeOK
  <1>5. ScopeRegistered'
    BY DEF ScopeRegistered, ResourceTypeOK
  <1> QED BY <1>2, <1>3, <1>4, <1>5

\* A resource that agent a holds for task t, where t is registered, is in t's
\* scope or was acquired before the scope was registered anew; releasing it
\* keeps the indexes in agreement either way.
LEMMA ReleaseEventKeepsInv ==
    ASSUME ResourceInv, NEW t \in Tasks, NEW r \in Resources,
           Held(r), resourceHolds[r].task = t,
           DropHolds({r}),
           heldResources' = [heldResources EXCEPT ![t] = @ \ {r}]
    PROVE  ResourceInv'
  <1> USE DEF ResourceInv, DropHolds
  <1>1. ResourceTypeOK'
    BY DEF ResourceTypeOK
  <1>2. HoldCarriesPlan'
    BY DEF HoldCarriesPlan, ResourceTypeOK, Held
  <1>3. PlanIndexSound'
    BY DEF PlanIndexSound, ResourceTypeOK, Held
  <1>4. ScopeSound'
    BY DEF ScopeSound, ResourceTypeOK
  <1>5. ScopeRegistered'
    BY DEF ScopeRegistered, ResourceTypeOK
  <1> QED BY <1>1, <1>2, <1>3, <1>4, <1>5

\* Every call of the state manager's resource section preserves the invariant.
LEMMA NextResourceInv == ResourceInv /\ [ResourceNext]_resourceVars => ResourceInv'
  <1> SUFFICES ASSUME ResourceInv, [ResourceNext]_resourceVars
               PROVE  ResourceInv'
    OBVIOUS
  <1>1. CASE UNCHANGED resourceVars
    BY <1>1 DEF resourceVars, ResourceInv, ResourceTypeOK, HoldCarriesPlan,
       PlanIndexSound, ScopeSound, ScopeRegistered, Held
  <1>2. ASSUME NEW p \in Plans, InitPlanningState(p) PROVE ResourceInv'
    <2>1. planningStates \cup {p} \in SUBSET Plans
      BY DEF ResourceInv, ResourceTypeOK
    <2> QED BY <1>2, <2>1, ResetIndexKeepsInv DEF InitPlanningState
  <1>3. ASSUME NEW p \in Plans, ClearPlanningState(p) PROVE ResourceInv'
    <2>1. planningStates \ {p} \in SUBSET Plans
      BY DEF ResourceInv, ResourceTypeOK
    <2> QED BY <1>3, <2>1, ResetIndexKeepsInv DEF ClearPlanningState
  <1>4. ASSUME NEW p \in Plans, ReleaseAllPlanResources(p) PROVE ResourceInv'
    BY <1>4, ReleaseAllKeepsInv
  <1>5. ASSUME NEW t \in Tasks, RegisterTaskRuntime(t) \/ UnregisterTaskRuntime(t)
        PROVE  ResourceInv'
    BY <1>5, ScopeChangeKeepsInv
  <1>6. ASSUME NEW t \in Tasks, NEW r \in Resources, TryAcquirePlanResource(t, r)
        PROVE  ResourceInv'
    BY <1>1, <1>6, RecordHoldKeepsInv, ResourceAssumption DEF TryAcquirePlanResource
  <1>7. ASSUME NEW t \in Tasks, NEW a \in Agents, NEW r \in Resources,
               HandleAcquireEvent(t, a, r)
        PROVE  ResourceInv'
    BY <1>1, <1>7, RecordHoldKeepsInv DEF HandleAcquireEvent
  <1>8. ASSUME NEW t \in Tasks, NEW a \in Agents, NEW r \in Resources,
               HandleReleaseEvent(t, a, r)
        PROVE  ResourceInv'
    BY <1>1, <1>8, ReleaseEventKeepsInv DEF HandleReleaseEvent, OwnedBy
  <1>9. ASSUME NEW t \in Tasks, NEW a \in Agents, ReleaseTaskResources(t, a)
        PROVE  ResourceInv'
    BY <1>9, DropHoldsKeepsInv DEF ReleaseTaskResources, Releasable
  <1> QED
    BY <1>1, <1>2, <1>3, <1>4, <1>5, <1>6, <1>7, <1>8, <1>9 DEF ResourceNext

\* The three indexes of the resource bookkeeping agree in every reachable
\* state, whatever the interleaving of dispatcher, handlers and plan executor.
THEOREM ResourceInvariance == ResourceSpec => []ResourceInv
  BY InitResourceInv, NextResourceInv, PTL DEF ResourceSpec

\* Type correctness of the resource section of GlobalStateManager.
THEOREM ResourceTypeCorrect == ResourceSpec => []ResourceTypeOK
  <1>1. ResourceInv => ResourceTypeOK
    BY DEF ResourceInv
  <1> QED BY <1>1, ResourceInvariance, PTL

\* ReleaseAllPlanResources may trust the plan's index: it never names a
\* resource that has meanwhile passed to another plan.
THEOREM PlanIndexCorrect == ResourceSpec => []PlanIndexSound
  <1>1. ResourceInv => PlanIndexSound
    BY DEF ResourceInv
  <1> QED BY <1>1, ResourceInvariance, PTL

\* ReleaseTaskResources may trust the task's scope: it never names a resource
\* that has meanwhile passed to another task.
THEOREM ScopeCorrect == ResourceSpec => []ScopeSound
  <1>1. ResourceInv => ScopeSound
    BY DEF ResourceInv
  <1> QED BY <1>1, ResourceInvariance, PTL

-----------------------------------------------------------------------------
(* Occupancy variables.                                                    *)

\* Dropping a set of holds takes the same resources out of a plan's index and
\* out of its occupancy variables.
LEMMA DropHoldsOccupancy ==
    ASSUME ResourceInv, OccupancyMirrorsHolds, NEW R \in SUBSET Resources, DropHolds(R)
    PROVE  OccupancyMirrorsHolds'
  <1> SUFFICES ASSUME NEW p \in Plans
               PROVE  /\ p \in planningStates' => occupied'[p] = IndexedBy(p)'
                      /\ p \notin planningStates' => occupied'[p] = {}
    BY DEF OccupancyMirrorsHolds
  <1> DEFINE G == {r \in R : resourceHolds[r].plan = p}
  <1>1. occupied'[p] = occupied[p] \ G /\ planningStates' = planningStates
    BY DEF DropHolds
  <1>2. IndexedBy(p)' = IndexedBy(p) \ G
    BY DEF DropHolds, IndexedBy, ResourceInv, ResourceTypeOK
  <1> QED BY <1>1, <1>2 DEF OccupancyMirrorsHolds

\* An acquiring call adds the resource to the index and to the occupancy
\* variables of the same plan, when that plan has a planning state.
LEMMA RecordHoldKeepsOccupancy ==
    ASSUME ResourceInv, OccupancyMirrorsHolds, NEW t \in Tasks, NEW a \in Agents,
           NEW r \in Resources, RecordHold(t, a, r)
    PROVE  OccupancyMirrorsHolds'
  <1> SUFFICES ASSUME NEW p \in Plans
               PROVE  /\ p \in planningStates' => occupied'[p] = IndexedBy(p)'
                      /\ p \notin planningStates' => occupied'[p] = {}
    BY DEF OccupancyMirrorsHolds
  <1> DEFINE h == [plan |-> PlanOf[t], agent |-> a, task |-> t]
  <1>1. h # NoHold
    BY NewHold, HoldFields
  <1>2. /\ planResources' = [q \in Plans |-> IF q = PlanOf[t]
               THEN [planResources[q] EXCEPT ![r] = h] ELSE planResources[q]]
        /\ occupied' = [q \in Plans |-> IF q = PlanOf[t] /\ PlanOf[t] \in planningStates
               THEN occupied[q] \cup {r} ELSE occupied[q]]
        /\ planningStates' = planningStates
    BY DEF RecordHold
  <1> HIDE DEF h
  <1>3. IndexedBy(p)' = IF p = PlanOf[t] THEN IndexedBy(p) \cup {r} ELSE IndexedBy(p)
    BY <1>1, <1>2 DEF IndexedBy, ResourceInv, ResourceTypeOK
  <1> QED BY <1>2, <1>3 DEF OccupancyMirrorsHolds

\* Every call keeps the occupancy variables in step with the plan's index.
LEMMA NextOccupancy ==
    ResourceInv /\ OccupancyMirrorsHolds /\ [ResourceNext]_resourceVars
        => OccupancyMirrorsHolds'
  <1> SUFFICES ASSUME ResourceInv, OccupancyMirrorsHolds, [ResourceNext]_resourceVars
               PROVE  OccupancyMirrorsHolds'
    OBVIOUS
  <1>1. CASE UNCHANGED resourceVars
    BY <1>1 DEF resourceVars, OccupancyMirrorsHolds, IndexedBy
  <1>2. ASSUME NEW p \in Plans, InitPlanningState(p) \/ ClearPlanningState(p)
        PROVE  OccupancyMirrorsHolds'
    BY <1>2 DEF InitPlanningState, ClearPlanningState, OccupancyMirrorsHolds, IndexedBy,
                ResourceInv, ResourceTypeOK
  <1>3. ASSUME NEW p \in Plans, ReleaseAllPlanResources(p) PROVE OccupancyMirrorsHolds'
    <2>1. IndexedBy(p)' = {} /\ \A q \in Plans \ {p} : IndexedBy(q)' = IndexedBy(q)
      BY <1>3 DEF ReleaseAllPlanResources, IndexedBy, ResourceInv, ResourceTypeOK
    <2>2. occupied' = [occupied EXCEPT ![p] = @ \ IndexedBy(p)]
          /\ planningStates' = planningStates
      BY <1>3 DEF ReleaseAllPlanResources
    <2> QED BY <2>1, <2>2 DEF OccupancyMirrorsHolds, ResourceInv, ResourceTypeOK
  <1>4. ASSUME NEW t \in Tasks, RegisterTaskRuntime(t) \/ UnregisterTaskRuntime(t)
        PROVE  OccupancyMirrorsHolds'
    BY <1>4 DEF RegisterTaskRuntime, UnregisterTaskRuntime, planVars,
                OccupancyMirrorsHolds, IndexedBy
  <1>5. ASSUME NEW t \in Tasks, NEW r \in Resources, TryAcquirePlanResource(t, r)
        PROVE  OccupancyMirrorsHolds'
    BY <1>1, <1>5, RecordHoldKeepsOccupancy, ResourceAssumption DEF TryAcquirePlanResource
  <1>6. ASSUME NEW t \in Tasks, NEW a \in Agents, NEW r \in Resources,
               HandleAcquireEvent(t, a, r)
        PROVE  OccupancyMirrorsHolds'
    BY <1>1, <1>6, RecordHoldKeepsOccupancy DEF HandleAcquireEvent
  <1>7. ASSUME NEW t \in Tasks, NEW a \in Agents, NEW r \in Resources,
               HandleReleaseEvent(t, a, r)
        PROVE  OccupancyMirrorsHolds'
    BY <1>1, <1>7, DropHoldsOccupancy DEF HandleReleaseEvent
  <1>8. ASSUME NEW t \in Tasks, NEW a \in Agents, ReleaseTaskResources(t, a)
        PROVE  OccupancyMirrorsHolds'
    <2>1. Releasable(t, a) \in SUBSET Resources
      BY DEF Releasable, ResourceInv, ResourceTypeOK
    <2> QED BY <1>8, <2>1, DropHoldsOccupancy DEF ReleaseTaskResources
  <1> QED BY <1>1, <1>2, <1>3, <1>4, <1>5, <1>6, <1>7, <1>8 DEF ResourceNext

\* The occupancy variables that realtime planning reads agree with the holds
\* the plan has, in every reachable state.
THEOREM OccupancyCorrect == ResourceSpec => []OccupancyMirrorsHolds
  <1>1. ResourceInit => OccupancyMirrorsHolds
    BY DEF ResourceInit, OccupancyMirrorsHolds, IndexedBy
  <1> QED BY <1>1, NextOccupancy, ResourceInvariance, PTL DEF ResourceSpec

-----------------------------------------------------------------------------
(* Refinement of the abstract lock.                                        *)

owner == [r \in Resources |-> resourceHolds[r].task]

\* Taking a free resource is a Grab of the abstract lock.
LEMMA RecordHoldIsGrab ==
    ASSUME ResourceInv, NEW t \in Tasks, NEW a \in Agents, NEW r \in Resources,
           ~Held(r), RecordHold(t, a, r)
    PROVE  Lock!Grab(t, r)
  BY NoHoldFields DEF RecordHold, Held, Lock!Grab, ResourceInv, ResourceTypeOK

\* Dropping holds of one task is a LetGo of the abstract lock.
LEMMA DropHoldsIsLetGo ==
    ASSUME ResourceInv, NEW t \in Tasks, NEW R \in SUBSET Resources,
           \A r \in R : resourceHolds[r].task = t, DropHolds(R)
    PROVE  Lock!LetGo(t, R)
  BY NoHoldFields DEF DropHolds, Lock!LetGo, Lock!Freed, ResourceInv, ResourceTypeOK

\* Ending a plan frees resources of tasks of that plan only.
LEMMA ReleaseAllIsEndPlan ==
    ASSUME ResourceInv, NEW p \in Plans, NEW R \in SUBSET Resources,
           R = IndexedBy(p), ReleaseAllPlanResources(p)
    PROVE  Lock!EndPlan(p, R)
  <1>1. \A r \in R : /\ r \in Resources
                     /\ resourceHolds[r] \in Hold
                     /\ resourceHolds[r].plan = p
                     /\ PlanOf[resourceHolds[r].task] = p
    BY DEF IndexedBy, ResourceInv, ResourceTypeOK, PlanIndexSound, HoldCarriesPlan, Held
  <1>2. \A r \in R : owner[r] \in Tasks /\ PlanOf[owner[r]] = p
    BY <1>1, HoldFields DEF owner
  <1>3. owner' = [r \in Resources |-> IF r \in R THEN NoTask ELSE owner[r]]
    BY NoHoldFields DEF ReleaseAllPlanResources, owner
  <1> QED BY <1>2, <1>3 DEF Lock!EndPlan, Lock!Freed, owner

\* Every call maps to a step of the abstract lock or leaves the owners alone.
LEMMA NextIsLockNext ==
    ResourceInv /\ [ResourceNext]_resourceVars => [Lock!LockNext]_owner
  <1> SUFFICES ASSUME ResourceInv, [ResourceNext]_resourceVars
               PROVE  Lock!LockNext \/ owner' = owner
    OBVIOUS
  <1>1. CASE UNCHANGED resourceHolds
    BY <1>1 DEF owner
  <1>2. CASE UNCHANGED resourceVars
    BY <1>1, <1>2 DEF resourceVars
  <1>3. ASSUME NEW p \in Plans, ReleaseAllPlanResources(p)
        PROVE  Lock!LockNext \/ owner' = owner
    <2>1. PICK R \in SUBSET Resources : R = IndexedBy(p)
      BY DEF IndexedBy
    <2>2. Lock!EndPlan(p, R)
      BY <1>3, <2>1, ReleaseAllIsEndPlan
    <2> QED BY <2>2 DEF Lock!LockNext
  <1>4. ASSUME NEW t \in Tasks, NEW r \in Resources, TryAcquirePlanResource(t, r)
        PROVE  Lock!LockNext \/ owner' = owner
    <2>1. AgentOf[t] \in Agents
      BY ResourceAssumption
    <2> QED BY <1>2, <1>4, <2>1, RecordHoldIsGrab DEF TryAcquirePlanResource, Lock!LockNext
  <1>5. ASSUME NEW t \in Tasks, NEW a \in Agents, NEW r \in Resources,
               HandleAcquireEvent(t, a, r)
        PROVE  Lock!LockNext \/ owner' = owner
    BY <1>2, <1>5, RecordHoldIsGrab DEF HandleAcquireEvent, Lock!LockNext
  <1>6. ASSUME NEW t \in Tasks, NEW a \in Agents, NEW r \in Resources,
               HandleReleaseEvent(t, a, r)
        PROVE  Lock!LockNext \/ owner' = owner
    <2>1. CASE ~(t \in taskRuntimeScopes /\ Held(r) /\ OwnedBy(r, t, a))
      BY <1>2, <1>6, <2>1 DEF HandleReleaseEvent
    <2>2. CASE t \in taskRuntimeScopes /\ Held(r) /\ OwnedBy(r, t, a)
      <3>1. Lock!LetGo(t, {r})
        BY <1>6, <2>2, DropHoldsIsLetGo DEF HandleReleaseEvent, OwnedBy
      <3> QED BY <3>1 DEF Lock!LockNext
    <2> QED BY <2>1, <2>2
  <1>7. ASSUME NEW t \in Tasks, NEW a \in Agents, ReleaseTaskResources(t, a)
        PROVE  Lock!LockNext \/ owner' = owner
    <2>1. PICK R \in SUBSET Resources : R = Releasable(t, a)
      BY DEF Releasable, ResourceInv, ResourceTypeOK
    <2>2. \A r \in R : resourceHolds[r].task = t
      BY <2>1 DEF Releasable, ResourceInv, ScopeSound
    <2>3. DropHolds(R)
      BY <1>7, <2>1 DEF ReleaseTaskResources, DropHolds
    <2>4. Lock!LetGo(t, R)
      BY <2>2, <2>3, DropHoldsIsLetGo
    <2> QED BY <2>4 DEF Lock!LockNext
  <1> QED
    BY <1>1, <1>2, <1>3, <1>4, <1>5, <1>6, <1>7
    DEF ResourceNext, InitPlanningState, ClearPlanningState, RegisterTaskRuntime,
        UnregisterTaskRuntime

\* The resource section of the state manager implements the abstract lock:
\* no resource passes from task to task without being free in between, and
\* no step frees resources of two tasks unless both belong to the ended plan.
THEOREM HoldsImplementLock == ResourceSpec => ImplementsLock
  <1>1. ResourceInit => Lock!LockInit
    BY NoHoldFields DEF ResourceInit, Lock!LockInit
  <1>2. ResourceInv /\ [ResourceNext]_resourceVars
            => [Lock!LockNext]_([r \in Resources |-> resourceHolds[r].task])
    BY NextIsLockNext DEF owner
  <1> QED BY <1>1, <1>2, ResourceInvariance, PTL
          DEF ResourceSpec, ImplementsLock, Lock!LockSpec
=============================================================================
