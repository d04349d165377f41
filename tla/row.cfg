SPECIFICATION Spec
CONSTANTS
    N = 2
    P = 4
    DELTA = 4
    ZqAccumMax = 45
    Inputs <- MCInputs
    Masks <- MCMasks
    PadRows <- MCPadRows
INVARIANTS TypeOK RowCorrect MasksCancel AccumulatorsFit
CHECK_DEADLOCK FALSE
