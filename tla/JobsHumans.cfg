SPECIFICATION Spec
CONSTANTS
    j1 = j1
    k1 = k1
    s1 = s1
    h1 = h1
    NoJob = NoJob
    Jobs = {j1}
    Children = {k1}
    Pollers = {}
    Triggers = {}
    Slots = {s1}
    Humans = {h1}
    TickLimit = 1
    MaxAttempts = 1
    EscrowPermitted = TRUE
    TimelyHeartbeats = FALSE
    Deals <- MCDeals
    MaxCrashes = 1
    MaxDbErrors = 1
    MaxHumanMoves = 1
PROPERTY NeverReopened
