SPECIFICATION Spec
CONSTANTS
    j1 = j1
    j2 = j2
    p1 = p1
    t1 = t1
    NoJob = NoJob
    Jobs = {j1, j2}
    Children = {}
    Pollers = {p1}
    Triggers = {t1}
    Slots = {}
    Humans = {}
    TickLimit = 2
    MaxAttempts = 2
    EscrowPermitted = TRUE
    TimelyHeartbeats = FALSE
    Deals <- MCDeals
    MaxCrashes = 1
    MaxDbErrors = 1
    MaxHumanMoves = 0
SYMMETRY JobSymmetry
INVARIANTS TypeOK SingleExecution OneEscrowMove CallbackAfterRow
