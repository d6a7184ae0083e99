SPECIFICATION FairSpec
CONSTANTS
    Tx = {t1, t2, t3}
    t1 = t1
    t2 = t2
    t3 = t3
    Kinds <- Crossing
    LastMonth = 0
    RootOf <- MiddleRoot
    Children <- BelowIt
    Requests = {0}
    StepRequests = {0}
    Contracts = {0}
    LastId = 1
CHECK_DEADLOCK FALSE
INVARIANTS DeadlocksNeedAClose
PROPERTIES EveryTransactionEnds
