SPECIFICATION FairSpec
CONSTANTS
    u1 = u1
    u2 = u2
    u3 = u3
    b1 = b1
    Present = {"users", "user_device_bindings"}
    Rows = {u1, u2, u3, b1}
    TableOf <- ThreeAndOne
    mail = mail
    MAIL = MAIL
    Keys = {v1, v2}
    Addresses = {mail, MAIL}
    Normal <- OneAddress
    Emails <- TwoMayShare
    Operations = {}
    BatchSize = 2
    MaxWrites = 0
    MaxCrashes = 0
CHECK_DEADLOCK FALSE
PROPERTIES
    Completes
