\* Two replicas share the key with a health endpoint; Redis outages and
\* process restarts.
SPECIFICATION FairSpec
CONSTANTS
    r1 = r1
    r2 = r2
    c1 = c1
    c2 = c2
    c3 = c3
    m1 = m1
    None = None
    Replicas = {r1, r2}
    Callers = {c1, c2}
    Monitors = {}
    Home <- TwoHomes
    FailureThreshold = 1
    RecoveryWindow = 1
    MaxLead = 1
    Outcomes = {"success", "failure", "neutral"}
    Faults = {"outage", "restart"}
INVARIANTS TypeOK
PROPERTIES OnlyFailuresOpen OpenIsLeft
