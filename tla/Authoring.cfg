SPECIFICATION Spec
CONSTANTS
    n1 = n1
    n2 = n2
    n3 = n3
    Ids = {n1, n2, n3, n4}
    Start = Start
    None = None
    Palette = {"action", "retry", "Start", "End", "Error", "Warning"}
    Ports = {"success", "failed", "aborted", "timeout"}
    Stored <- MCStored
    NodeFields = {"retry", "server"}
    MaxOps = 3
    TdIds = {d1, d2}
    Bases = {b}
    Plain = Plain
    NoTd = NoTd
    MaxCount = 2
    MaxIds = 8
    MaxLibOps = 2
    Tds = {d1, d2}
    StateVars = {s1, s2}
    Holders = {h}
    Tokens = {k1}
    NoDistributor = NoTd
    MaxModalOps = 3
    TaskIds = {t1, t2}
    Rtms = {r1, r2}
    Able = {r1}
    UnknownRtm = rx
    NoTask = NoTask
    MaxSetOps = 4
    Robots = {ra, rb}
    NoRobot = NoRobot
    Schemas <- MCSchemas
    Steps <- MCSteps
    Results <- MCResults
    Telemetry <- MCTelemetry
    Joints = {"j1", "j2"}
    MaxEdits = 2
INVARIANTS
    TypeOK
    SavedTransitionsResolve
    PortsStaySingle
    RoundTrip
    ImportFaithful
    SavedAsConfigured
    TaskSetRestored
    CaptureSound
CHECK_DEADLOCK FALSE
