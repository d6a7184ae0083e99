SPECIFICATION Spec
CONSTANTS
    Apps = {"app1", "app2"}
    Path <- MCPath
    Keys = {"key1", "key2"}
    KeyApp <- MCKeyApp
    Idems = {i1}
    Payloads = {"small"}
    Bound <- MCBound
    Caps <- SharedCaps
    RootCap <- MCRootCap
    Limits = {2, 4}
    Usages = {0, 1, 2, 3}
    Requests = {r1, r2}
    r1 = r1
    r2 = r2
    r3 = r3
    i1 = i1
    i2 = i2
    i3 = i3
    Admins = {"x1"}
    LastDay = 0
    MonthOf <- OneMonth
    MaxVersion = 2
SYMMETRY Symmetry
INVARIANTS TypeOK BooksBalance PostingsFollowState NoSilentCrossing
PROPERTIES SettledOnce NeverOvercommits ImplementsEscrow
