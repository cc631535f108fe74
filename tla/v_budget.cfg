SPECIFICATION Spec
CONSTANTS
    a = a
    b = b
    c = c
    d = d
    Ids = {a}
    DependsOn <- NoDeps
    Budget = 3
    MaxAttempts <- SameBudget
    Key <- NoKeys
    Periodic = {}
    Nodes = {n1}
    Workers = {w1}
    NoWorker = NoWorker
    NoId = NoId
    Slots = {s1}
    Callers = {c1}
    Handled = {a}
    QueueCap = 1
    MaxPending = 1
    SharedStore = FALSE
    Ops = {"claim"}
    MaxGrants = 4
INVARIANTS RetryBudget
CHECK_DEADLOCK FALSE
