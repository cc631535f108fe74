SPECIFICATION Spec
CONSTANTS
    a = a
    b = b
    c = c
    d = d
    Ids = {a}
    DependsOn <- NoDeps
    Budget = 2
    MaxAttempts <- SameBudget
    Key <- NoKeys
    Periodic = {}
    Nodes = {n1}
    Workers = {w1}
    NoWorker = NoWorker
    NoId = NoId
    Slots = {s1}
    Callers = {c1}
    Handled = {a}
    QueueCap = 1
    MaxPending = 1
    SharedStore = FALSE
    Ops = {"claim", "purge", "stop", "restart", "late"}
    MaxGrants = 2
INVARIANTS LeaseIsFenced
PROPERTIES SettledOnce
CHECK_DEADLOCK FALSE
