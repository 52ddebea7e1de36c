\* The catch-up worker and a request, from two starts; every fault may happen.
SPECIFICATION Spec
CONSTANTS
    j1 = j1
    j2 = j2
    None = None
    Jobs = {j1, j2}
    Trading = {0, 1, 3}
    MaxTime = 3
    ChunkSize = 1
    Starts = {0, 2}
    Faults = {"timeout", "error", "empty", "crash", "outage"}
INVARIANTS TypeOK HolesExplained FinalBelow
SYMMETRY JobSymmetry
