SPECIFICATION Spec
CONSTANTS
    Contacts = {c1, c2}
    Requests = {r1, r2}
    MaxAlerts = 1
    MaxFaults = 0
    DispatchDelay = 1
    ManualCooldown = 2
    Expiry = 3
    AutoCooldown = 4
    Prompt = FALSE
    Operations = {"manual", "send", "safe"}
SYMMETRY Symmetry
INVARIANTS
    FalseAlarmWasNeverDispatched
