SPECIFICATION Spec
CONSTANTS
    Users = {u1, u2}
    Goods = {g1}
    Items <- Three
    Trades = {t1}
    Requests = {r1, r2}
    NoRow = NoRow
    NoRequest = NoRequest
    MaxQuantity = 2
    MaxVersion = 1
    Forms <- Offers
SYMMETRY Symmetry
INVARIANTS ListedHaveStock ScreensAreCurrent OnePointOfEachGoods
PROPERTIES ProposedItemsAreListed RemovedItemsRest CompletionTakesOnePoint
CHECK_DEADLOCK FALSE
