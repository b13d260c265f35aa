\* An invocation and a resumed one, which may overlap, over both phases.
SPECIFICATION FairSpec
CONSTANTS
    r1 = r1
    r2 = r2
    Runs = {r1, r2}
    Last = 2
    None = None
    Torn = Torn
    MaxFaults = 2
CHECK_DEADLOCK FALSE
INVARIANTS
    PaidOutcomesSurface
    CleanExitIsEarned
PROPERTIES
    EveryRunEnds
    ImplementsPaidCalls
