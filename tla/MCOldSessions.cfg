SPECIFICATION Spec
CONSTANTS
    Users = {u1}
    Requests = {r1, r2}
    Jobs = {j1}
    Sessions = {s1}
    NoRow = NoRow
    Nobody = Nobody
    MaxAttempts = 2
    MaxTokens = 2
    MaxPasswords = 2

INVARIANTS OldPasswordSessionsEnd
CHECK_DEADLOCK FALSE
