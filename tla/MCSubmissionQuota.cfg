SPECIFICATION Spec
CONSTANTS
    r1 = r1
    r2 = r2
    r3 = r3
    Requests = {r1, r2, r3}
    MaxEntries = 2
    Bodies <- SizeBodies
    Quotas = {0, 1, 3}
    PlanQuota = 2
    InitQuota = 3
    InitUsed = 1
    MaxMonth = 2
    MaxFaults = 0
    MaxChanges = 1
SYMMETRY Symmetric
INVARIANTS TypeOK UsageExact QuotaRespected
PROPERTIES NoStaleRejection LedgerSpec
CHECK_DEADLOCK FALSE
