SPECIFICATION Spec
CONSTANTS
    c1 = c1
    c2 = c2
    p1 = p1
    p2 = p2
    Keep = Keep
    Gate = 1
    Reserve <- MCReserve
    Caller = {c1, c2}
    Process = {p1, p2}
    Deployments <- MCDeployments
    Requests <- MCRequests
    MaxRetries = 2
    MaxWatch = 3
PROPERTIES
    ImplementsRegister
    CallsAreAccounted
