---------------------------- MODULE ResourceLock ----------------------------
(***************************************************************************)
(* What the fleet's resource bookkeeping promises: every resource is free  *)
(* or owned by exactly one runtime task, ownership never passes directly   *)
(* from one task to another, and one step gives up resources of a single   *)
(* task (the task finished or reported a release) or of a single plan (the *)
(* plan execution ended).  The abstract specification of the resource      *)
(* section of state/manager.go; ResourceHolds implements it.               *)
(***************************************************************************)
CONSTANTS Tasks,      \* runtime task identifiers
          Resources,  \* resource instances
          Plans,      \* plan (planning problem) identifiers
          PlanOf,     \* the plan a task belongs to, or NoPlan
          NoTask      \* owner of a free resource

VARIABLE owner        \* owner[r]: the task that owns r, or NoTask

Freed(R) == [r \in Resources |-> IF r \in R THEN NoTask ELSE owner[r]]

LockInit == owner = [r \in Resources |-> NoTask]

Grab(t, r) ==
    /\ owner[r] = NoTask
    /\ owner' = [owner EXCEPT ![r] = t]

LetGo(t, R) ==
    /\ \A r \in R : owner[r] = t
    /\ owner' = Freed(R)

EndPlan(p, R) ==
    /\ \A r \in R : owner[r] \in Tasks /\ PlanOf[owner[r]] = p
    /\ owner' = Freed(R)

LockNext ==
    \/ \E t \in Tasks, r \in Resources : Grab(t, r)
    \/ \E t \in Tasks, R \in SUBSET Resources : LetGo(t, R)
    \/ \E p \in Plans, R \in SUBSET Resources : EndPlan(p, R)

LockSpec == LockInit /\ [][LockNext]_owner
=============================================================================
