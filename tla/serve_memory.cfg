SPECIFICATION ServeSpec
CONSTANTS
    Connections = {c1, c2, c3, c4}
    MaxSessions = 2
INVARIANT StatesCapped
CHECK_DEADLOCK FALSE
