SPECIFICATION FairSpec
CONSTANTS
    Tenants = {"tenant1", "tenant2"}
    Events = {e1, e2, e3}
    e1 = e1
    e2 = e2
    e3 = e3
    TenantOf <- MCTenantOf
    Thresholds = {e1, e2}
    Workers = {w1, w2}
    w1 = w1
    w2 = w2
    Limit = 2
    MaxRetries = 1
    MaxQueued = 1
    MaxFaults = 1
INVARIANTS NeverLost DuplicatesNeedRollback
PROPERTIES ImplementsAtLeastOnce
