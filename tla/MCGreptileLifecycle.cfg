SPECIFICATION Spec
CONSTANTS
    s1 = s1
    s2 = s2
    Sessions = {s1, s2}
    None = None
    NoResponse = 1
    Endings = {"completed"}
    MaxTime = 1
    MaxFaults = 2
    Transports = {"mcp", "comment"}
INVARIANT OneRequest
INVARIANT ReadyIsEarned
SYMMETRY Symmetry
CHECK_DEADLOCK FALSE
