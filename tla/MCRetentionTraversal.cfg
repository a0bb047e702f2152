SPECIFICATION TraversalSpec
CONSTANTS
    w1 = w1
    NoRun = NoRun
    Runs = {w1}
    Orgs = {1}
    Logs = {1, 2}
    Alerts = {}
    OrgOf <- MCOrgOf
    AlertOrg <- MCNone
    AlertLog <- MCNone
    InitLogAt <- MCInitLogAt
    InitAlerts = {}
    Periods = {1}
    LeaseTerm = 2
    TxTimeout = 1
    BatchSize = 1
    MaxBatches = 1
    MaxDuration = 1
    MaxAttempts = 3
    InitTime = 2
    MaxTime = 2
    MaxFaults = 0
    MaxChanges = 0
PROPERTIES FullTraversal
CHECK_DEADLOCK FALSE
