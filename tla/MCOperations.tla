---------------------------- MODULE MCOperations ----------------------------
(* Two executions: two tasks for one agent one after the other, and one of *)
(* the same tasks for another agent.                                       *)
EXTENDS Operations, TLC

CONSTANTS w1, w2, j1, j2

MCPlans ==
    << {[agent |-> w1, task |-> j1, order |-> 0], [agent |-> w1, task |-> j2, order |-> 1]},
       {[agent |-> w2, task |-> j1, order |-> 0]} >>
\* Only the planning page uses the distributors, and it never chooses one of them.
MCSymmetry == Permutations(Distributors)
=============================================================================
