SPECIFICATION Spec
CONSTANTS
    a = a
    b = b
    c = c
    d = d
    Ids = {a, b}
    DependsOn <- BNeedsA
    Budget = 2
    MaxAttempts <- SameBudget
    Key <- NoKeys
    Periodic = {}
    Nodes = {n1}
    Workers = {w1}
    NoWorker = NoWorker
    NoId = NoId
    Slots = {s1}
    Callers = {c1}
    Handled = {a, b}
    QueueCap = 1
    MaxPending = 1
    SharedStore = FALSE
    Ops = {"claim", "renew", "heartbeat", "cancel"}
    MaxGrants = 2
INVARIANTS TypeOK LeaseIsFenced DependencyGate NoLeakedReservation
PROPERTIES SettledOnce FollowsLifecycle
CHECK_DEADLOCK FALSE
