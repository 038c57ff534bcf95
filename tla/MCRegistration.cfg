SPECIFICATION Spec
CONSTANTS
    Users = {u1, u2, u3}
    Founder = u1
    Emails = {e1, e2}
    FoundersEmail = e1
    Invitations = {i1, i2}
    Confirmations = {c1, c2}
    Requests = {r1, r2}
    Admin = Admin
    NoRow = NoRow
    Deleted = Deleted
    NoRequest = NoRequest
    RedemptionLimit = 1
    MaxFailedAttempts = 1
SYMMETRY Symmetry
INVARIANTS TypeOK LimitsHold InvitersKeepOneLink ConfirmationsServeOnce NoCircleOfWaits
PROPERTIES StandingInvitationsAdmit
CHECK_DEADLOCK FALSE
