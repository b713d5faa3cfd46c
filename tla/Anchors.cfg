SPECIFICATION AnchorSpec
CONSTANTS
    s1 = s1
    w1 = w1
    v1 = v1
    NoSession = NoSession
    Sessions = {s1}
    Legacy = {}
    Writers = {w1}
    Verifiers = {v1}
    OneLock = TRUE
    MaxRows = 3
    MaxFailures = 1
    MaxDamage = 1
    MaxDay = 1
    MaxAnchors = 1
INVARIANTS MatchMeansUnchanged SettledDayVerifies
