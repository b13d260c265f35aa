CONSTANTS
    c1 = c1
    c2 = c2
    c3 = c3
    k1 = k1
    e1 = e1
    Calls = {c1, c2}
    Keys = {k1}
    Evidence = {e1}
    NoKey = NoKey
    None = None
    MaxFaults = 1
SYMMETRY CallSymmetry
SPECIFICATION Spec
INVARIANT LoggedAtMostOnce
CHECK_DEADLOCK FALSE
