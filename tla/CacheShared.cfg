\* Three requests for one key; calls fail and waiters are cancelled.
SPECIFICATION FairSpec
CONSTANTS
    t1 = t1
    t2 = t2
    t3 = t3
    k1 = k1
    k2 = k2
    None = None
    Failed = Failed
    Lost = Lost
    Tasks = {t1, t2, t3}
    Keys = {k1}
    Capacity = 1
    MaxVersion = 0
    Faults = {"error", "cancel"}
PROPERTIES Coalesces EveryGetEnds
