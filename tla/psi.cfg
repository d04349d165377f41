SPECIFICATION FairSpec
CONSTANTS
    Elements = {e1, e2}
    Tags = {t1, t2}
    MAX_BATCH_EVALUATIONS = 3
    MAX_VOPRF_BATCH_EVALUATIONS = 2
    MAX_CLIENT_SET = 5
    MAX_CLIENT_SET_S = 4
    MAX_SERVER_SET = 1
    MAX_SERVER_SET_S = 2
    MaxLen = 6
INVARIANTS TypeOK IntersectionRight SpentWhenServed CleanRunSucceeds
PROPERTY BothEnd
CHECK_DEADLOCK FALSE
