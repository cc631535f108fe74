SPECIFICATION Spec
CONSTANTS
    a = a
    b = b
    c = c
    d = d
    Ids = {a}
    DependsOn <- NoDeps
    Budget = 2
    MaxAttempts <- SameBudget
    Key <- NoKeys
    Periodic = {}
    Nodes = {n1}
    Workers = {w1}
    NoWorker = NoWorker
    NoId = NoId
    Slots = {}
    Callers = {c1}
    Handled = {}
    QueueCap = 1
    MaxPending = 1
    SharedStore = FALSE
    Ops = {"claim", "renew", "heartbeat"}
    MaxGrants = 2
PROPERTIES ReapsOnlyExpired
CHECK_DEADLOCK FALSE
