SPECIFICATION Spec
CONSTANTS
    Slots = {s1, s2}
    Policies = {p, q}
    Org = Org
    Timed = p
    Preferred = {q}
    Modes = {"log", "block"}
    Starts = {1, 3}
    Ends = {1}
    PerHour = 1
    Hours = 4
    MaxRequests = 1
    Window = 1
    MaxBatch = 2
    MaxTime = 3
    MaxChanges = 1
    MaxLogs = 5
INVARIANTS PriorityWins
CHECK_DEADLOCK FALSE
