SPECIFICATION FairSpec
CONSTANTS
    Users = {u1, u2, u3}
    Goods = {g1}
    Items <- Two
    Trades = {t1, t2}
    Requests = {r1, r2}
    NoRow = NoRow
    NoRequest = NoRequest
    MaxQuantity = 1
    MaxVersion = 0
    Forms <- Singles
INVARIANTS CirclesNeedForeignItems
PROPERTIES RequestsReturn
CHECK_DEADLOCK FALSE
