\* One replica, no faults: the asyncio lock orders every update.
SPECIFICATION FairSpec
CONSTANTS
    r1 = r1
    r2 = r2
    c1 = c1
    c2 = c2
    c3 = c3
    m1 = m1
    None = None
    Replicas = {r1}
    Callers = {c1, c2, c3}
    Monitors = {m1}
    Home <- OneHome
    FailureThreshold = 2
    RecoveryWindow = 2
    MaxLead = 0
    Outcomes = {"success", "failure"}
    Faults = {}
INVARIANTS ThresholdTrips
PROPERTIES NoCallWhileOpen HealsWithProvider
