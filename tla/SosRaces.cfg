SPECIFICATION Spec
CONSTANTS
    Contacts = {c1, c2}
    Requests = {r1, r2}
    MaxAlerts = 1
    MaxFaults = 1
    DispatchDelay = 1
    ManualCooldown = 2
    Expiry = 3
    AutoCooldown = 4
    Prompt = FALSE
    Operations = {"manual", "auto", "predict", "send", "cancel", "safe", "expire"}
SYMMETRY Symmetry
INVARIANTS
    TypeOK
    SentToldEveryone
    MarkedSafeWasSent
    CountdownIsGuarded
    NoAllClearOutOfTheBlue
PROPERTIES
    CancelledIsFinal
    RefinesLifecycle
