SPECIFICATION Spec
CONSTANTS
    Subs = {s1, s2}
    Plans = {"pro", "business"}
    Unknown = "unknown"
    None = None
    Handlers = {h1, h2}
    Forgets = FALSE
    MaxEvents = 3
INVARIANTS FreeQuota
CHECK_DEADLOCK FALSE
