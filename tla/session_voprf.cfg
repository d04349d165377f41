SPECIFICATION Spec
CONSTANTS
    H_ROWS = 2
    MaxBatch = 2
    Voprf = TRUE
    ResumeOnError = TRUE
    MaxEvaluations = 3
    MaxCalls = 2
    MaxRenewals = 1
INVARIANTS RunsSpentOnce ServerNeverExhausted InStep
CHECK_DEADLOCK FALSE
