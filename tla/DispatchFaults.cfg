SPECIFICATION Spec
CONSTANTS
    t1 = t1  t2 = t2  t3 = t3
    a1 = a1  a2 = a2
    r1 = r1  r2 = r2
    Tasks = {t1}
    Agents = {a1}
    Resources = {r1}
    Plans = {}
    PlanOf <- NoPlanAtAll
    NoTask = NoTask  NoAgent = NoAgent  NoPlan = NoPlan
    AgentOf <- OneAgent
    Named <- AllNeedR1
    Pool <- Nothing
    Events <- Nothing
    Cancellable = {}
    Pausable = {t1}
    Conditional = {t1}
    Outcomes = {"completed"}
    Ordered = TRUE
    Prompt = FALSE
    Punctual = FALSE
    Lossy = TRUE
    CatalogFails = TRUE
    MaxDispatchAttempts = 2
    Endless = TRUE
    MaxDrops = 2
INVARIANTS DispatchTypeOK QueuedHoldsNothing NoLeakedHold
PROPERTY DispatchUsesResources
CHECK_DEADLOCK FALSE
