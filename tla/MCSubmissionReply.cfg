SPECIFICATION Spec
CONSTANTS
    r1 = r1
    r2 = r2
    r3 = r3
    Requests = {r1}
    MaxEntries = 3
    Bodies <- NamedBodies
    Quotas = {3}
    PlanQuota = 3
    InitQuota = 3
    InitUsed = 0
    MaxMonth = 0
    MaxFaults = 0
    MaxChanges = 1
INVARIANTS ProcessedAreStored
CHECK_DEADLOCK FALSE
