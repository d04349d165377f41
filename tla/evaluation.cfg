SPECIFICATION Spec
CONSTANTS
    N = 3
    P = 2
    DELTA = 4
    LOG_DELTA = 2
    BASE_OT_COUNT = 5
    LOG_Q = 3
    ByteBits = 4
    H_ROWS = 2
    Evaluations = 2
    Xof <- MCXof
    Lead <- MCLead
    Keys <- MCKeys
    BinaryCoins <- MCBinaryCoins
    DeltaCoins <- MCDeltaCoins
    Calls <- MCCalls
INVARIANTS OtsMatch MasksFresh RequestsArrive EvaluationRight TagsSeparate
CHECK_DEADLOCK FALSE
