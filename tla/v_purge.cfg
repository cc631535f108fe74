SPECIFICATION Spec
CONSTANTS
    a = a
    b = b
    c = c
    d = d
    Ids = {a}
    DependsOn <- NoDeps
    Budget = 2
    MaxAttempts <- SameBudget
    Key <- NoKeys
    Periodic = {}
    Nodes = {n1}
    Workers = {}
    NoWorker = NoWorker
    NoId = NoId
    Slots = {s1}
    Callers = {c1}
    Handled = {a}
    QueueCap = 1
    MaxPending = 1
    SharedStore = FALSE
    Ops = {"purge"}
    MaxGrants = 1
INVARIANTS PurgeSparesRunning
CHECK_DEADLOCK FALSE
