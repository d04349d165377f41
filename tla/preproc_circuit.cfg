SPECIFICATION PreprocSpec
CONSTANTS
    N = 3
    P = 2
    DELTA = 2
    Pf = 17
    N_BITS = 2
    N_TABLE_ROWS = 4
    Evaluations = 3
    BITS_PER_ELEMENT = 2
    MaskTables <- MCMaskTables
    SumOpenings <- MCSumOpenings
INVARIANTS PreprocTypeOK PreprocSound PreprocHonestAccepted
CHECK_DEADLOCK FALSE
