SPECIFICATION FairSpec
CONSTANTS
    H_ROWS = 2
    MaxBatch = 1
    Voprf = TRUE
    ResumeOnError = FALSE
    MaxEvaluations = 2
    MaxCalls = 3
    MaxRenewals = 0
PROPERTY EvaluateReturns
CHECK_DEADLOCK FALSE
