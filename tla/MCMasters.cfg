SPECIFICATION Spec
CONSTANTS
    Masters <- MCMasters
    Parent <- MCParent
    NoParent = NoParent
    Goods <- MCGoods
    Stations <- MCStations
    Seeded <- MCSeeded
    Users = {u1, u2}
    Requests = {r1, r2}
    Names = {n1, n2}
    NoRow = NoRow
    NoRequest = NoRequest
    MaxVersion = 2
    MaxChanged = 1
    MaxChanges = 3
SYMMETRY Symmetry
INVARIANTS ReferencesStand ScreensAreCurrent NoCircleOfWaits
PROPERTIES NewReferencesArePublished
CHECK_DEADLOCK FALSE
