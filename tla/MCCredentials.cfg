SPECIFICATION FairSpec
CONSTANTS
    Users = {u1}
    Requests = {r1, r2}
    Jobs = {j1}
    Sessions = {s1}
    NoRow = NoRow
    Nobody = Nobody
    MaxAttempts = 3
    MaxTokens = 3
    MaxPasswords = 3
INVARIANTS EachLinkChangesOnce LinksReachTheMailbox GoneUsersCannotSignIn
PROPERTIES TheStoredLinkChanges JobsEnd
CHECK_DEADLOCK FALSE
