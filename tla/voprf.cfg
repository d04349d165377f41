SPECIFICATION Spec
CONSTANTS
    N = 2
    P = 2
    DELTA = 4
    LOG_DELTA = 2
    BASE_OT_COUNT = 3
    H_ROWS = 2
    Evaluations = 2
    Xof <- MCXof
    Lead <- MCLead
    Keygens = {1, 2}
    KeyOf <- MCKeyOf
    None = None
    Truncated = Truncated
    BinaryCoins <- MCBinaryCoins
    DeltaCoins <- MCDeltaCoins
    Calls <- MCCalls
INVARIANTS VerifiedOutput HonestAccepted WholeKeys
CHECK_DEADLOCK FALSE
