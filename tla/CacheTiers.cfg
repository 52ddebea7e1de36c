\* Two keys compete for the only place in L1.
SPECIFICATION Spec
CONSTANTS
    t1 = t1
    t2 = t2
    t3 = t3
    k1 = k1
    k2 = k2
    None = None
    Failed = Failed
    Lost = Lost
    Tasks = {t1, t2}
    Keys = {k1, k2}
    Capacity = 1
    MaxVersion = 1
    Faults = {"outage"}
INVARIANTS TypeOK OneFetchPerKey
SYMMETRY TaskSymmetry
