CONSTANTS
    Labels = {"a", "A", "f", "x", "*", ""}
    Lower <- MCLower
    Fallback <- MCFallback
    MaxLabels = 10
    Users = {u1}
    BlockRules = {}
    RedirectRules <- MCBlockRules
    Queries <- MCRedirectQueries
    IPs = {ip1}
    NoIP = NoIP
    Procs = {p1}
    Kinds = {"redirect"}
    TTL = 2
    MaxLag = 1
SPECIFICATION HSpec
INVARIANT NoMatchNotReported
