SPECIFICATION ButtonSpec
CONSTANTS
    Contacts = {c1}
    Requests = {r1, r2}
    Operations = {}
    MaxAlerts = 1
    MaxFaults = 0
    DispatchDelay = 2
    ManualCooldown = 3
    Expiry = 4
    AutoCooldown = 5
    Prompt = FALSE
    TapWindow = 1
    Pairing = FALSE
PROPERTIES
    NothingFoundNothingComing
