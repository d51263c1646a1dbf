-------------------------- MODULE MCResourceHolds --------------------------
(* Model values and small constants for the model checking of ResourceHolds *)
EXTENDS ResourceHolds, TLC

CONSTANTS t1, t2, t3, a1, a2, r1, r2, p1, p2

\* Two tasks of different plans share agent a1, t3 belongs to no plan.
MCAgentOf == t1 :> a1 @@ t2 :> a1 @@ t3 :> a2
MCPlanOf  == t1 :> p1 @@ t2 :> p2 @@ t3 :> NoPlan
=============================================================================
