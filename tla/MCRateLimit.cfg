SPECIFICATION Spec
CONSTANTS
    Requests = {r1, r2}
    Addresses <- MCAddresses
    IPs <- MCIPs
    NoAddress = NoAddress
    Unit <- MCUnit
    Limit <- MCLimit
    Window = 2
    Retention = 3
    Patience = 1
    MaxTime = 4
    MaxCount = 3
SYMMETRY MCRequests
INVARIANTS
    WindowsKeepTheLimit
    DecidedAttemptsAreCounted
PROPERTIES
    RunningWindowsStay
