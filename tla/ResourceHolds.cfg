SPECIFICATION ResourceSpec
CONSTANTS
    t1 = t1  t2 = t2  t3 = t3
    a1 = a1  a2 = a2
    r1 = r1  r2 = r2
    p1 = p1  p2 = p2
    Tasks = {t1, t2, t3}
    Agents = {a1, a2}
    Resources = {r1, r2}
    Plans = {p1, p2}
    AgentOf <- MCAgentOf
    PlanOf <- MCPlanOf
    NoTask = NoTask
    NoAgent = NoAgent
    NoPlan = NoPlan
INVARIANTS ResourceTypeOK PlanIndexSound ScopeSound OccupancyMirrorsHolds
PROPERTY ImplementsLock
