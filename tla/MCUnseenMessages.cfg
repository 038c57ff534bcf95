SPECIFICATION Spec
CONSTANTS
    Users = {u1, u2}
    Messages <- Ids
    Requests = {r1, r2}
    NoRow = NoRow
    Never = Never
    MaxTime = 2
SYMMETRY Symmetry
INVARIANTS UnseenIsUnread
CHECK_DEADLOCK FALSE
