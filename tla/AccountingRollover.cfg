SPECIFICATION Spec
CONSTANTS
    Apps = {"app1"}
    Path <- MCPath
    Keys = {"key1"}
    KeyApp <- MCKeyApp
    Idems = {i1, i2}
    Payloads = {"small"}
    Bound <- MCBound
    Caps <- MixedCaps
    RootCap <- MCRootCap
    Limits = {4}
    Usages = {1}
    Requests = {r1, r2}
    r1 = r1
    r2 = r2
    r3 = r3
    i1 = i1
    i2 = i2
    i3 = i3
    Admins = {}
    LastDay = 2
    MonthOf <- TwoDaysAMonth
    MaxVersion = 1
SYMMETRY Symmetry
INVARIANTS BooksBalance RootCoversScopes
PROPERTIES RenewalFailsClosed
