SPECIFICATION MCSpec
CONSTANTS
    r1 = r1
    r2 = r2
    r3 = r3
    NoRunner = NoRunner
    NoRow = NoRow
    Runners = {r1, r2, r3}
    Files = {1, 2, 3}
    Texts = {"text", "edited"}
    Disk <- Checkouts
    MaxLost = 2
    MaxFailures = 1
    Amounts = {1, 8, 25}
    Months = {"m1", "m2"}
    Categories = {"c1", "c2"}
    Plans = {"p1", "p2"}
    MaxRows = 3
    Top = 2
    Clients <- MCClients
    JobIds = {1, 2, 3}
    Null = Null
    Instants = {0, 1, 2}
    Ttl = 1
    Leeway = 1
    VaultRows <- MCVaultRows
    BackboneRows <- MCBackboneRows
    MaxTokens = 2
    MaxIndexed = 3
    MinScore = 2
INVARIANTS InOrder AppliedOnce LineEndsTolerated ReportsBalance JobsReadByOwner RetrievalSound
PROPERTY RunnersEnd
CHECK_DEADLOCK FALSE
