SPECIFICATION FairCalls
CONSTANTS
    Apps = {"app"}
    Path <- MCPath
    Keys = {"key"}
    KeyApp <- MCKeyApp
    Idems = {"i1"}
    Payloads = {"stream"}
    Streamed = {"stream"}
    Bound <- MCBound
    Caps <- MCCaps
    RootCap <- MCRootCap
    Limits = {4}
    Usages = {1, 2}
    Requests = {r1, r2}
    r1 = r1
    r2 = r2
    Admins = {}
    LastDay = 0
    MonthOf <- MCMonth
    MaxVersion = 1
    Calls = {c1}
    c1 = c1
    c2 = c2
    Quota = 1
    Faults = {"disconnect"}
    MaxFaults = 1
CHECK_DEADLOCK FALSE
PROPERTIES DisconnectsReconcile
