SPECIFICATION Spec
CONSTANTS
    j1 = j1
    a1 = a1
    v1 = v1
    v2 = v2
    Jobs = {j1}
    Runs = {a1}
    Specs <- MCSpecs
    Versions = {v1, v2}
    Agreed = v1
    MaxChanges = 1
    MaxCalls = 2
    MaxFaults = 2
INVARIANTS PassIsEarned VerdictsAgree SessionsCleared BrowsersAccounted
PROPERTY EveryJobSettles
