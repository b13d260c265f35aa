SPECIFICATION Spec
CONSTANTS
    s1 = s1
    s2 = s2
    Sessions = {s1, s2}
    None = None
    NoResponse = 1
    Endings = {"completed", "failed"}
    MaxTime = 1
    MaxFaults = 1
    Transports = {"comment"}
PROPERTY EverySessionSettles
CHECK_DEADLOCK FALSE
