SPECIFICATION FairSpec
CONSTANTS
    Contacts = {c1}
    Requests = {r1}
    MaxAlerts = 2
    MaxFaults = 0
    DispatchDelay = 1
    ManualCooldown = 2
    Expiry = 3
    AutoCooldown = 4
    Prompt = FALSE
    Operations = {"manual", "predict", "cancel", "safe", "expire"}
INVARIANTS
    SoleCountdown
PROPERTIES
    CooldownHolds
    CountdownEnds
