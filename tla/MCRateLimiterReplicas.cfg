CONSTANTS
    c1 = c1
    c2 = c2
    c3 = c3
    r1 = r1
    r2 = r2
    Callers = {c1, c2, c3}
    Replicas = {r1, r2}
    ReplicaOf <- TwoReplicas
    Limit = 2
    Window = 3
    MaxLag = 0
    MaxClock = 1
    MaxCalls = 2
SPECIFICATION Spec
INVARIANT AdmissionBounded
CHECK_DEADLOCK FALSE
