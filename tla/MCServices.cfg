SPECIFICATION MCSpec
CONSTANTS
    Kinds = {"crewai", "autogpt", "openai", "langchain", "typescript"}
    MaxTraces = 2
    MaxLogs = 5
    MaxFlight = 3
    Jobs = {j}
    MAX_ALERT_EMAILS = 2
    AlertWindow = 2
    AlertTime = 5
    MaxMails = 5
    AlertChanges = 1
    Requests = {r1, r2, r3, r4}
    Max = 1
    NotHit = NotHit
    MaxWindow = 1
    Calls = {c1, c2}
    Texts = {"x", "y"}
    Metas = {"m", "n"}
    None = None
    Gone = Gone
    MaxRules = 3
    MaxVersions = 3
    Subs = {s1, s2}
    Plans = {"pro", "business"}
    Unknown = "unknown"
    Handlers = {h1, h2}
    Forgets = TRUE
    MaxEvents = 3
    Slots = {e1, e2}
    Policies = {p, q}
    Org = Org
    Timed = p
    Preferred = {q}
    Modes = {"log", "block"}
    Starts = {1, 3}
    Ends = {1}
    PerHour = 1
    Hours = 4
    MaxRequests = 1
    Window = 1
    MaxBatch = 2
    MaxTime = 3
    MaxChanges = 1
    MaxStored = 4
    ReportIds = {i1}
    Agents = {g1}
    Days = {1, 2}
    Bulks = {1, 16, 43}
    MaxReports = 1
    MaxArrivals = 2
    SeverityFilters = {"warning"}
    EnforcementActions = {"block"}
    MaxRead = 2
    Orgs = {o1, o2}
    Keys = {a1}
    Providers = {"github", "google"}
    Emails = {"a"}
    Limit = 1
    MaxAsked = 5
INVARIANTS ChainComplete WindowRespected FailuresBounded SnapshotInCall
    SerialBillingAgrees VerdictCovers RateBounded RowsFit TotalsAgree SignInReturns
    AgentsBounded
PROPERTIES SerialChangesReversible HistoryKept
CHECK_DEADLOCK FALSE
