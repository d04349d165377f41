SPECIFICATION Spec
CONSTANTS
    H_ROWS = 2
    MaxBatch = 2
    Voprf = FALSE
    ResumeOnError = TRUE
    MaxEvaluations = 2
    MaxCalls = 3
    MaxRenewals = 1
INVARIANTS TypeOK OutputsRight RunsSpentOnce ServerNeverExhausted InStep
PROPERTY ImplementsService
CHECK_DEADLOCK FALSE
