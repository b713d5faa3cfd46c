SPECIFICATION FairSpec
CONSTANTS
    j1 = j1
    j2 = j2
    k1 = k1
    p1 = p1
    NoJob = NoJob
    Jobs = {j1, j2}
    Children = {k1}
    Pollers = {p1}
    Triggers = {}
    Slots = {}
    Humans = {}
    TickLimit = 1
    MaxAttempts = 2
    EscrowPermitted = TRUE
    TimelyHeartbeats = TRUE
    Deals <- HookDeals
    MaxCrashes = 1
    MaxDbErrors = 1
    MaxHumanMoves = 0
PROPERTY RunningResolved
PROPERTY QueuedResolved
PROPERTY WebhookFired
