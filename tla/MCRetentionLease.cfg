SPECIFICATION Spec
CONSTANTS
    w1 = w1
    w2 = w2
    NoRun = NoRun
    Runs = {w1, w2}
    Orgs = {1}
    Logs = {1}
    Alerts = {}
    OrgOf <- MCOrgOf1
    AlertOrg <- MCNone
    AlertLog <- MCNone
    InitLogAt <- MCInitLogAt1
    InitAlerts = {}
    Periods = {1}
    LeaseTerm = 2
    TxTimeout = 1
    BatchSize = 1
    MaxBatches = 2
    MaxDuration = 2
    MaxAttempts = 2
    InitTime = 2
    MaxTime = 5
    MaxFaults = 1
    MaxChanges = 1
SYMMETRY Workers
INVARIANTS TypeOK
PROPERTIES LeaseNotStolen ErasureAuthorised
CHECK_DEADLOCK FALSE
