--------------------------- MODULE MCTaskDispatch ---------------------------
(* Model values and small constants for the model checking of TaskDispatch  *)
EXTENDS TaskDispatch

CONSTANTS t1, t2, t3, a1, a2, r1, r2

OneAgent  == [t \in Tasks |-> a1]
TwoAgents == [t \in Tasks |-> IF t = t3 THEN a1 ELSE IF t = t1 THEN a1 ELSE a2]
NoPlanAtAll == [t \in Tasks |-> NoPlan]
Nothing == [t \in Tasks |-> {}]
NamedR1 == [t \in Tasks |-> IF t = t2 THEN {} ELSE {r1}]
PoolBoth == [t \in Tasks |-> IF t = t2 THEN {r1, r2} ELSE {}]
T1TakesR2 == [t \in Tasks |-> IF t = t1 THEN {r2} ELSE {}]
AllNeedR1 == [t \in Tasks |-> {r1}]
=============================================================================
