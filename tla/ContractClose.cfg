SPECIFICATION ContractSpec
CONSTANTS
    Apps = {"app1"}
    Path <- MCPath
    Keys = {"key1"}
    KeyApp <- MCKeyApp
    Idems = {i1, i2}
    Payloads = {"small"}
    Bound <- MCBound
    Caps <- RootOnly
    RootCap <- MCRootCap
    Limits = {3}
    Usages = {0, 1}
    Requests = {r1, r2}
    r1 = r1
    r2 = r2
    r3 = r3
    i1 = i1
    i2 = i2
    i3 = i3
    Admins = {"x1"}
    LastDay = 0
    MonthOf <- OneMonth
    MaxVersion = 1
    Contracts = {"c1"}
    ContractKey <- MCContractKey
    Envelope <- MCEnvelope
    Editors = {}
    MaxTokenVersion = 2
SYMMETRY Symmetry
INVARIANTS CloseWaitsForSteps
