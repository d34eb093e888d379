CONSTANTS
    Labels = {"a", "A", "f", "x", "*", ""}
    Lower <- MCLower
    Fallback <- MCFallback
    MaxLabels = 10
    Users = {u1}
    BlockRules <- MCBlockRules
    RedirectRules = {}
    Queries <- MCQueries
    IPs = {}
    NoIP = NoIP
    Procs = {p1, p2}
    Kinds = {"rule"}
    TTL = 2
    MaxLag = 1
SPECIFICATION HSpec
INVARIANTS
    TypeOK
    EntriesFresh
    FallbackAlwaysBlocks
PROPERTY ServedFresh
SYMMETRY ProcSymmetry
