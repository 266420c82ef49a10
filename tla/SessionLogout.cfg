SPECIFICATION Spec
CONSTANTS
    Requests = {r1}
    MaxIssues = 1
    Presented = {"refresh"}
    MayFail = TRUE
PROPERTIES
    LoggedOutIsRevoked
