SPECIFICATION Spec
CONSTANTS
    Users <- Two
    Trades = {t1}
    Requests = {r1, r2}
    NoTrade = NoTrade
    NoRequest = NoRequest
    Notes = {TRUE}
    MaxMessages = 1
    MaxConsents = 1
SYMMETRY RequestSymmetry
INVARIANTS TradersAreMembers TradersConsent PressesDecide BadgeCountsTurns
PROPERTIES EndedTradesRest WordsNeedConsent ImplementsContract
CHECK_DEADLOCK FALSE
