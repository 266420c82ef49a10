SPECIFICATION FairSpec
CONSTANTS
    Contacts = {c1}
    Requests = {r1}
    MaxAlerts = 1
    MaxFaults = 1
    DispatchDelay = 1
    ManualCooldown = 2
    Expiry = 3
    AutoCooldown = 4
    Prompt = TRUE
    Operations = {"manual"}
PROPERTIES
    UnattendedIsSent
