SPECIFICATION GatewaySpec
CONSTANTS
    r1 = r1
    r2 = r2
    n1 = n1
    g1 = g1
    g2 = g2
    k1 = k1
    NoToken = NoToken
    NoKey = NoKey
    NoJob = NoJob
    Requests = {r1, r2}
    Users = {r1, r2}
    Tokens = {n1, g1, g2}
    Grants = {g1, g2}
    Expiry <- MCExpiry
    Cap = 2
    Keys = {k1}
    Calls <- MCCalls
    EscrowPermitted = TRUE
    Models = 2
    MaxTools = 2
    MaxClock = 1
    MaxFaults = 1
    MaxOthers = 1
INVARIANTS OnceWhileValid SlotsConserved KeyNamesOneJob ReservationAccounted
SYMMETRY RequestSymmetry
