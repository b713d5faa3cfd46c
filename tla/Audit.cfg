SPECIFICATION Spec
CONSTANTS
    s1 = s1
    s2 = s2
    w1 = w1
    w2 = w2
    v1 = v1
    NoSession = NoSession
    Sessions = {s1, s2}
    Legacy = {s2}
    Writers = {w1, w2}
    Verifiers = {v1}
    OneLock = FALSE
    MaxRows = 3
    MaxFailures = 1
    MaxDamage = 2
    MaxDay = 0
SYMMETRY WriterSymmetry
INVARIANTS NoFork IntactAccepted DamageDetected
PROPERTY LedgerSpec
