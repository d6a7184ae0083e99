SPECIFICATION ContractSpec
CONSTANTS
    Apps = {"app1"}
    Path <- MCPath
    Keys = {"key1"}
    KeyApp <- MCKeyApp
    Idems = {i1, i2, i3}
    Payloads = {"small"}
    Bound <- MCBound
    Caps <- RootOnly
    RootCap <- MCRootCap
    Limits = {3}
    Usages = {1}
    Requests = {r1, r2, r3}
    r1 = r1
    r2 = r2
    r3 = r3
    i1 = i1
    i2 = i2
    i3 = i3
    Admins = {"x1"}
    LastDay = 0
    MonthOf <- OneMonth
    MaxVersion = 1
    Contracts = {"c1"}
    ContractKey <- MCContractKey
    Envelope <- ShortEnvelope
    Editors = {"e1"}
    MaxTokenVersion = 2
SYMMETRY Symmetry
INVARIANTS ContractTypeOK FundsBalance EnvelopeHolds ClosingFits ReceiptAgrees
    AllocationsBalance
PROPERTIES BudgetsAreEscrow
