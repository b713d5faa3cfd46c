SPECIFICATION Spec
CONSTANTS
    j1 = j1
    j2 = j2
    p1 = p1
    p2 = p2
    NoJob = NoJob
    Jobs = {j1, j2}
    Children = {}
    Pollers = {p1, p2}
    Triggers = {}
    Slots = {}
    Humans = {}
    TickLimit = 2
    MaxAttempts = 1
    EscrowPermitted = TRUE
    TimelyHeartbeats = TRUE
    Deals <- GatewayDeals
    MaxCrashes = 0
    MaxDbErrors = 0
    MaxHumanMoves = 0
PROPERTY NoSettlementOfExpired
