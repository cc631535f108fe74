SPECIFICATION Spec
CONSTANTS
    a = a
    b = b
    c = c
    d = d
    Ids = {a, b, c, d}
    DependsOn <- BNeedsA
    Budget = 2
    MaxAttempts <- SameBudget
    Key <- CDShareKey
    Periodic = {}
    Nodes = {n1}
    Workers = {}
    NoWorker = NoWorker
    NoId = NoId
    Slots = {}
    Callers = {c1, c2}
    Handled = {}
    QueueCap = 1
    MaxPending = 1
    SharedStore = FALSE
    Ops = {"submit", "purge"}
    MaxGrants = 0
SYMMETRY CallerSymmetry
INVARIANTS BackpressureOvershoot OneRecordPerKey
CHECK_DEADLOCK FALSE
