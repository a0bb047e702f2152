SPECIFICATION Spec
CONSTANTS
    w1 = w1
    w2 = w2
    NoRun = NoRun
    Runs = {w1}
    Orgs = {1, 2}
    Logs = {1, 2, 3}
    Alerts = {1, 2, 3}
    OrgOf <- MCOrgOf
    AlertOrg <- MCAlertOrg
    AlertLog <- MCAlertLog
    InitLogAt <- MCInitLogAt
    InitAlerts = {2}
    Periods = {1, 2}
    LeaseTerm = 2
    TxTimeout = 1
    BatchSize = 2
    MaxBatches = 2
    MaxDuration = 2
    MaxAttempts = 2
    InitTime = 2
    MaxTime = 3
    MaxFaults = 1
    MaxChanges = 1
INVARIANTS NoOrphanedAlert KillSwitchDrains
PROPERTIES OnlyExpiredErased BatchBounded
CHECK_DEADLOCK FALSE
