CONSTANTS
    c1 = c1
    c2 = c2
    c3 = c3
    r1 = r1
    r2 = r2
    Callers = {c1, c2}
    Replicas = {r1}
    ReplicaOf <- OneReplica
    Limit = 2
    Window = 3
    MaxLag = 1
    MaxClock = 5
    MaxCalls = 5
SPECIFICATION Spec
INVARIANTS
    TypeOK
    SetBounded
    AdmissionBounded
PROPERTY RefusedOnlyAtLimit
CHECK_DEADLOCK FALSE
