SPECIFICATION FairSpec
CONSTANTS
    r1 = r1
    r2 = r2
    r3 = r3
    Requests = {r1, r2}
    MaxEntries = 3
    Bodies <- StorageBodies
    Quotas = {4}
    PlanQuota = 4
    InitQuota = 4
    InitUsed = 0
    MaxMonth = 0
    MaxFaults = 2
    MaxChanges = 1
INVARIANTS BatchAllOrNothing CleanReplyStored
PROPERTIES FlaggedAlerted
CHECK_DEADLOCK FALSE
