SPECIFICATION IngressSpec
CONSTANTS
    Nil = Nil
    Publishings <- IngressPublishings
    ValidIPs = {"10.0.0.1"}
    Range = {30080, 30443}
    MaxEdits = 2
    MaxMeddles = 1
    Specs <- MCSpecs
    Releases <- MCReleases
    Budgets <- MCBudgets
    MaxSurge = 0
    TakesUnversioned = TRUE
INVARIANTS TypeOK Published Quiescent IngressTypeOK Applied TrafficReaches
PROPERTIES AppliedIsLeftAlone ComesToRest
CHECK_DEADLOCK FALSE
