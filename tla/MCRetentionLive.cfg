SPECIFICATION FairSpec
CONSTANTS
    w1 = w1
    w2 = w2
    NoRun = NoRun
    Runs = {w1}
    Orgs = {1, 2}
    Logs = {1, 2, 3, 4}
    Alerts = {1}
    OrgOf <- MCOrgOf2
    AlertOrg <- MCOrgOf1
    AlertLog <- MCOrgOf1
    InitLogAt <- MCInitLogAt2
    InitAlerts = {1}
    Periods = {1}
    LeaseTerm = 2
    TxTimeout = 1
    BatchSize = 1
    MaxBatches = 1
    MaxDuration = 2
    MaxAttempts = 2
    InitTime = 2
    MaxTime = 4
    MaxFaults = 1
    MaxChanges = 0
PROPERTIES BacklogDrains
CHECK_DEADLOCK FALSE
