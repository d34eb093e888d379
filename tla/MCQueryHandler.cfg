CONSTANTS
    Labels = {"a", "A", "b", "f", "*", ""}
    Lower <- MCLower
    Fallback <- MCFallback
    MaxLabels = 10
    Users = {"alice"}
    StdUser = "alice"
    UnknownUser = "alice"
    ServerNames <- MCServerNames
    Paths <- MCPaths
    BlockRules <- MCRules
    RedirectRules <- MCRules
    Queries <- MCBlockedQueries
    IPs = {"v4"}
    IPv4 = {"v4"}
    NoIP = "noip"
    Procs = {p1}
    Kinds = {"rule", "redirect"}
    TTL = 1
    MaxLag = 1
SPECIFICATION FairHSpec
INVARIANTS
    BuiltinNeverResolved
    RowMatchesAnswer
PROPERTIES
    BlockEnforced
    RedirectAsConfigured
    EveryQueryAnswered
