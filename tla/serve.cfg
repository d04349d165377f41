SPECIFICATION FairServe
CONSTANTS
    Connections = {c1, c2, c3, c4}
    MaxSessions = 2
INVARIANT PermitsConserved
PROPERTY SessionsEnd
CHECK_DEADLOCK FALSE
