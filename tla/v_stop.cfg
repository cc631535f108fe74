SPECIFICATION Spec
CONSTANTS
    a = a
    b = b
    c = c
    d = d
    Ids = {a}
    DependsOn <- NoDeps
    Budget = 2
    MaxAttempts <- SameBudget
    Key <- NoKeys
    Periodic = {}
    Nodes = {n1}
    Workers = {w1}
    NoWorker = NoWorker
    NoId = NoId
    Slots = {s1}
    Callers = {}
    Handled = {a}
    QueueCap = 1
    MaxPending = 1
    SharedStore = FALSE
    Ops = {"claim", "stop"}
    MaxGrants = 1
INVARIANTS StopRequeuesLocalRuns
CHECK_DEADLOCK FALSE
