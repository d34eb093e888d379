CONSTANTS
    Labels = {"a", "A", "b", "*", ""}
    Lower <- MCLower
    Fallback <- MCFallback
    MaxLabels = 3
    MaxLength = 4
SPECIFICATION NameSpec
INVARIANTS
    PatternsMatchReference
    SpellingsAgree
PROPERTY SubdomainsStayBlocked
CHECK_DEADLOCK FALSE
