SPECIFICATION Spec
CONSTANTS
    a = a
    b = b
    c = c
    d = d
    Ids = {a, b}
    DependsOn <- BNeedsA
    Budget = 1
    MaxAttempts <- SameBudget
    Key <- NoKeys
    Periodic = {}
    Nodes = {n1, n2}
    Workers = {w1}
    NoWorker = NoWorker
    NoId = NoId
    Slots = {s1}
    Callers = {}
    Handled = {a}
    QueueCap = 1
    MaxPending = 1
    SharedStore = TRUE
    Ops = {"claim"}
    MaxGrants = 2
SYMMETRY NodeSymmetry
INVARIANTS LeaseIsFenced DependencyGate
PROPERTIES SettledOnce FinalIsFinal
CHECK_DEADLOCK FALSE
