SPECIFICATION FairSpec
CONSTANTS
    w1 = w1
    w2 = w2
    r1 = r1
    r2 = r2
    r3 = r3
    None = None
    Workers = {w1, w2}
    Requests = {r1, r2, r3}
    Home <- TwoHomes
    Modes <- MCModes
    Faults = {"expiry", "outage", "refusal", "crash", "lock_expiry"}
INVARIANTS OneLogin
CHECK_DEADLOCK FALSE
PROPERTIES EveryCallEnds FailuresEnd
