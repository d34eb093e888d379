CONSTANTS
    Labels = {"a", "x", "*", ""}
    Lower <- MCLower
    Fallback = {}
    MaxLabels = 10
    Users = {u1}
    Queries <- MCQueries
    NoIP = NoIP
    BlockRules <- MCRules
    RedirectRules <- MCWildcard
    IPs = {ip1}
    Procs = {p1}
    Kinds = {"rule", "redirect"}
    TTL = 1
    MaxLag = 1
    ChannelSize = 1
    FirstBackoff = 1
    MaxBackoff = 2
    HealthCheck = 1
    MaxWrites = 1
SPECIFICATION FairSyncSpec
INVARIANTS
    TypeOK
    EvictionEffective
    ResubscribesInTime
PROPERTY EventuallyConsistent
