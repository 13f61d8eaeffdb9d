SPECIFICATION FairSpec
CONSTANTS
    c1 = c1
    c2 = c2
    c3 = c3
    Container = {c1, c2, c3}
    Unlabelled = {c3}
    MaxRetries = 3
    None = None
INVARIANTS TypeOK AttemptsNotShared AttemptsBounded Complete StampedOnArrival
PROPERTIES Terminates
CHECK_DEADLOCK FALSE
