SPECIFICATION LockingSpec
CONSTANTS
    Users <- Two
    Trades = {t1, t2}
    Requests = {r1, r2}
    NoTrade = NoTrade
    NoRequest = NoRequest
    Notes = {FALSE}
    MaxMessages = 0
    MaxConsents = 1
PROPERTIES RequestsReturn
CHECK_DEADLOCK FALSE
