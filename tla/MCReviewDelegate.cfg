\* Two runs, two parts; no symmetry, for liveness.
SPECIFICATION FairSpec
CONSTANTS
    r1 = r1
    r2 = r2
    testing = testing
    performance = performance
    t1 = t1
    t2 = t2
    Runs = {r1, r2}
    Parts = {testing, performance}
    Trees = {t1, t2}
    None = None
    Torn = Torn
    MaxWrites = 1
    MaxFaults = 1
CHECK_DEADLOCK FALSE
INVARIANTS
    CreditNeedsCleanCheck
    UnresolvedIsExplained
PROPERTIES
    EveryRunEnds
    ImplementsPaidCalls
