SPECIFICATION Spec
CONSTANTS
    a = a
    b = b
    c = c
    d = d
    Ids = {a, b}
    DependsOn <- NoDeps
    Budget = 2
    MaxAttempts <- SameBudget
    Key <- NoKeys
    Periodic = {a}
    Nodes = {n1, n2}
    Workers = {}
    NoWorker = NoWorker
    NoId = NoId
    Slots = {s1}
    Callers = {}
    Handled = {a, b}
    QueueCap = 1
    MaxPending = 1
    SharedStore = FALSE
    Ops = {"stop", "crash"}
    MaxGrants = 3
SYMMETRY NodeSymmetry
INVARIANTS StopHandsBack NoLeakedReservation RunCountExact RetryBudget
PROPERTIES FinalIsFinal
CHECK_DEADLOCK FALSE
