SPECIFICATION MCSpec
CONSTANTS
    Bases = {a, b}
    Choices = {7, 30}
    None = None
    Expiry = 1
    MaxTime = 1
    MaxSwitch = 2
    Sends = {k1, k2}
    Keyed = {k1, k2}
    EventTypes = {"delivered", "delivery_delayed"}
    MaxAttempts = 3
    Policies = {p, q}
    Calls = {c1, c2}
    DialogClicks = 3
    Sections = {"agents", "alerts", "logs"}
    Pages = 2
    MaxLoads = 3
    MaxClicks = 2
INVARIANTS SavedAsReviewed ReviewUsable DisplayCertain
    StatusHonest DuplicateBacked SecondMailUnrecorded
    SettledDialogAgrees 
PROPERTIES PanelSettles ProviderHasLastWord SendEnds
CHECK_DEADLOCK FALSE
