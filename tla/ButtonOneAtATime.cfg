SPECIFICATION ButtonSpec
CONSTANTS
    Contacts = {c1}
    Requests = {r1}
    Operations = {"send", "expire"}
    MaxAlerts = 2
    MaxFaults = 1
    DispatchDelay = 2
    ManualCooldown = 3
    Expiry = 4
    AutoCooldown = 5
    Prompt = FALSE
    TapWindow = 1
    Pairing = TRUE
INVARIANTS
    ButtonTypeOK
PROPERTIES
    DoubleTapLeavesNoCountdown
