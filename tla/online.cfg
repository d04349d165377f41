SPECIFICATION OnlineSpec
CONSTANTS
    N = 2
    P = 2
    DELTA = 4
    Pf = 37
    N_BITS = 2
    RUNS_PER_EVALUATION = 2
    BITS_PER_ELEMENT = 1
    Requests <- MCRequests
    PadTables <- MCPadTables
INVARIANTS OnlineTypeOK OnlineSound OnlineHonestAccepted
CHECK_DEADLOCK FALSE
