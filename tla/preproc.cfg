SPECIFICATION FairSpec
CONSTANTS
    H_ROWS = 2
    MaxTau = 5
INVARIANTS Agreement MismatchReported StreamsInStep
PROPERTIES BothEnd ImplementsRenewal
CHECK_DEADLOCK FALSE
