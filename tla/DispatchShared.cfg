SPECIFICATION FairSpec
CONSTANTS
    t1 = t1  t2 = t2  t3 = t3
    a1 = a1  a2 = a2
    r1 = r1  r2 = r2
    Tasks = {t1, t2}
    Agents = {a1, a2}
    Resources = {r1, r2}
    Plans = {}
    PlanOf <- NoPlanAtAll
    NoTask = NoTask  NoAgent = NoAgent  NoPlan = NoPlan
    AgentOf <- TwoAgents
    Named <- NamedR1
    Pool <- PoolBoth
    Events <- T1TakesR2
    Cancellable = {}
    Pausable = {}
    Conditional = {}
    Outcomes = {"completed"}
    Ordered = TRUE
    Prompt = TRUE
    Punctual = TRUE
    Lossy = FALSE
    CatalogFails = FALSE
    MaxDispatchAttempts = 1
    Endless = FALSE
    MaxDrops = 0
INVARIANTS HeldWhileRunning FinishedRowFinal NoSendOnClosed
PROPERTIES StartedOnce EveryTaskEnds
CHECK_DEADLOCK FALSE
