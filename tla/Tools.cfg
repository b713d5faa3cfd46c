CONSTANTS
    j1 = j1
    j2 = j2
    v1 = v1
    Jobs = {j1, j2}
    Runs = {v1}
    Asked <- MCAsked
    Slug <- MCSlug
    Dispatched <- MCAsked
    Keys <- MCKeys
    MaxCalls = 2
    MaxRoutes = 2
    MaxFaults = 1
SPECIFICATION Spec
INVARIANTS NothingLeftBehind PostsAccounted
CHECK_DEADLOCK FALSE
