SPECIFICATION Spec
CONSTANTS
    t1 = t1  t2 = t2  t3 = t3
    a1 = a1  a2 = a2
    r1 = r1  r2 = r2
    Tasks = {t1}
    Agents = {a1}
    Resources = {r1}
    Plans = {}
    PlanOf <- NoPlanAtAll
    NoTask = NoTask  NoAgent = NoAgent  NoPlan = NoPlan
    AgentOf <- OneAgent
    Named <- Nothing
    Pool <- Nothing
    Events <- Nothing
    Cancellable = {t1}
    Pausable = {}
    Conditional = {}
    Outcomes = {"completed"}
    Ordered = TRUE
    Prompt = TRUE
    Punctual = TRUE
    Lossy = FALSE
    CatalogFails = FALSE
    MaxDispatchAttempts = 1
    Endless = TRUE
    MaxDrops = 0
INVARIANT NoSendOnClosed
CHECK_DEADLOCK FALSE
