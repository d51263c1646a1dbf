SPECIFICATION Spec
CONSTANTS
    Agents = {a1, a2}
    Graphs = {g1, g2}
    Nobody = Nobody
    MaxDashOps = 3
    Distributors = {d1, d2}
    Tasks = {t1, t2}
    Null = Null
    MaxPddlOps = 3
    MaxRuns = 1
    MaxSessions = 1
    MaxSelected = 2
    MaxPolls = 1
    w1 = w1
    w2 = w2
    j1 = j1
    j2 = j2
    PlanOf <- MCPlans
    NoRun = NoRun
    MaxReads = 1
    MaxPolled = 1
    MaxRounds = 2
SYMMETRY MCSymmetry
INVARIANTS
    TypeOK
    GoalsStayInScope
    NoGhostExecution
    SelectionCoherent
    StartVouched
    
    NoGhostHolds
CHECK_DEADLOCK FALSE
