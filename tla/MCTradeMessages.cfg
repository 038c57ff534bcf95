SPECIFICATION Spec
CONSTANTS
    Users = {u1, u2}
    Messages <- Ids
    Requests = {r1, r2}
    NoRow = NoRow
    Never = Never
    MaxTime = 1
SYMMETRY Symmetry
INVARIANTS SeenStaysRead LaterMessagesAreUnread
CHECK_DEADLOCK FALSE
