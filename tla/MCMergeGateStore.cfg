CONSTANTS
    c1 = c1
    c2 = c2
    c3 = c3
    k1 = k1
    e1 = e1
    Calls = {c1, c2, c3}
    Keys = {k1}
    Evidence = {e1}
    NoKey = NoKey
    None = None
    MaxFaults = 3
SYMMETRY CallSymmetry
SPECIFICATION Spec
INVARIANTS
    AnswersAreAuthoritative
    DecisionHasEvidence
    SyncedLineSurvives
    LogIsExplained
PROPERTIES
    ImplementsRegister
CHECK_DEADLOCK FALSE
