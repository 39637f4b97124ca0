SPECIFICATION Spec
INVARIANTS
    AtMostAllowedInAWindow
    RetryAfterIsEnough
    StaleFormsDoNothing
PROPERTIES
    RefusedClientGetsBudgetBack
CONSTANTS
    Clients = {"desk"}
    Attempts = {"a1", "a2"}
    Allowed = 2
    Window = 2
    Lifetime = 2
    Skew = 1
    KeyConfigured = FALSE
    Tabs = {"t1"}
    MaxSessions = 2
    MaxRestarts = 1
    MaxBack = 1
