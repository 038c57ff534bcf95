---------------------------- MODULE Registration ----------------------------
(***************************************************************************)
(* How a user comes to be: invitations and their renewal, the confirmation *)
(* of a mail address, the making of the account, and what the deletion of  *)
(* an account does to these.                                               *)
(*                                                                         *)
(* A request reads before its transaction and locks inside it, so it may   *)
(* act on an invitation that has been used up, revoked or expired since.   *)
(* Rows a transaction has locked or written stay out of reach until it     *)
(* commits; a transaction is split where another can step in between.      *)
(*                                                                         *)
(* The trades that forbid a deletion, passwords, sessions and the unique   *)
(* atname (checked as the address is) are left out.                        *)
(***************************************************************************)
EXTENDS Naturals, FiniteSets

CONSTANTS
    Users,              \* ids of accounts
    Founder,            \* a user who is registered at the start
    Emails,
    FoundersEmail,
    Invitations,        \* ids of invitations that may be made
    Confirmations,      \* ids of email_confirmations that may be made
    Requests,           \* requests in flight
    Admin,              \* the inviter of an invitation made by the CLI
    NoRow,              \* "no such row"
    Deleted,            \* the row is gone and its id not used again
    NoRequest,          \* "nobody holds the lock"
    RedemptionLimit,    \* InviterRedemptionLimit
    MaxFailedAttempts   \* EmailConfirmationMaxFailedAttempts

ASSUME FounderIsAUser == Founder \in Users /\ FoundersEmail \in Emails
ASSUME AdminIsNoUser == Admin \notin Users
ASSUME NoRowIsApart == NoRow \notin Users \cup Invitations \cup Confirmations \cup {Deleted}
ASSUME NoRequestIsNoRequest == NoRequest \notin Requests
ASSUME LimitsAreNumbers == RedemptionLimit \in Nat \ {0} /\ MaxFailedAttempts \in Nat

VARIABLES
    users,          \* users; "by": the confirmation it was made with (history)
    invitations,
    redemptions,    \* invitation_redemptions
    confirmations,  \* email_confirmations
    userLock,       \* the request that holds the row of users
    invitationLock, \* the request that holds the row FOR UPDATE
    req             \* where each request stands

database == <<users, invitations, redemptions, confirmations>>
vars == <<database, userLock, invitationLock, req>>

UserRows == [email: Emails, alive: BOOLEAN, by: Confirmations \cup {NoRow}]
InvitationRows == [inviter: Users \cup {Admin}, revoked: BOOLEAN, expired: BOOLEAN]
ConfirmationRows == [email: Emails, failed: 0..MaxFailedAttempts, confirmed: BOOLEAN, expired: BOOLEAN]
ASSUME NoRowIsNoRow ==
    NoRow \notin UserRows \cup InvitationRows \cup ConfirmationRows /\ Deleted \notin ConfirmationRows

Idle == [pc |-> "idle"]
RequestStates ==
    {Idle}
    \cup [pc: {"renew", "replace"}, user: Users, current: Invitations \cup {NoRow}]
    \cup [pc: {"signUp"}, invitation: Invitations, email: Emails]
    \cup [pc: {"account", "insert"}, invitation: Invitations, confirmation: Confirmations, email: Emails]
    \cup [pc: {"made"}, invitation: Invitations, confirmation: Confirmations, email: Emails, user: Users]
    \cup [pc: {"delete", "withdrawn"}, user: Users]
    \cup [pc: {"erased"}, user: Users, found: SUBSET Confirmations]

TypeOK ==
    /\ users \in [Users -> UserRows \cup {NoRow}]
    /\ invitations \in [Invitations -> InvitationRows \cup {NoRow}]
    /\ redemptions \subseteq [invitation: Invitations, user: Users]
    /\ confirmations \in [Confirmations -> ConfirmationRows \cup {NoRow, Deleted}]
    /\ userLock \in [Users -> Requests \cup {NoRequest}]
    /\ invitationLock \in [Invitations -> Requests \cup {NoRequest}]
    /\ req \in [Requests -> RequestStates]

Init ==
    /\ users = [u \in Users |-> IF u = Founder
                                THEN [email |-> FoundersEmail, alive |-> TRUE, by |-> NoRow]
                                ELSE NoRow]
    /\ invitations = [i \in Invitations |-> NoRow]
    /\ redemptions = {}
    /\ confirmations = [c \in Confirmations |-> NoRow]
    /\ userLock = [u \in Users |-> NoRequest]
    /\ invitationLock = [i \in Invitations |-> NoRequest]
    /\ req = [r \in Requests |-> Idle]

-----------------------------------------------------------------------------
(* What the statements read. *)

Made(i) == invitations[i] # NoRow
Alive(u) == users[u] # NoRow /\ users[u].alive
Registered(e) == \E u \in Users : Alive(u) /\ users[u].email = e

InvitationsOf(u) == {i \in Invitations : Made(i) /\ invitations[i].inviter = u}
UnrevokedOf(u) == {i \in InvitationsOf(u) : ~invitations[i].revoked}

\* All invitations of an inviter count together, revoked ones as well.
RedemptionsOf(u) == Cardinality({d \in redemptions : d.invitation \in InvitationsOf(u)})

HasRoom(i) ==
    IF invitations[i].inviter = Admin
    THEN ~\E d \in redemptions : d.invitation = i
    ELSE RedemptionsOf(invitations[i].inviter) < RedemptionLimit

IsUsable(i) == Made(i) /\ ~invitations[i].revoked /\ ~invitations[i].expired /\ HasRoom(i)

Stored(c) == confirmations[c] \notin {NoRow, Deleted}
Confirmed(c) == Stored(c) /\ confirmations[c].confirmed

-----------------------------------------------------------------------------
(* How a request moves, and for whom it waits. *)

\* Those that may yet take the address, or are giving it back.
HoldersOf(e) ==
    {q \in Requests :
        \/ req[q].pc = "made" /\ req[q].email = e
        \/ req[q].pc \in {"withdrawn", "erased"} /\ users[req[q].user].email = e}

\* Wrong on purpose: the inviter is locked as well, after the invitation.
InsertWaitsForInviter(r) ==
    LET inviter == invitations[req[r].invitation].inviter
    IN  HoldersOf(req[r].email)
        \cup IF inviter = Admin THEN {} ELSE {userLock[inviter]} \ {NoRequest}

InsertWaitsFor(r) == HoldersOf(req[r].email)

\* The requests whose locks or uncommitted rows the next statement waits for.
Blockers(r) ==
    LET s == req[r]
    IN  CASE s.pc \in {"renew", "delete"} -> {userLock[s.user]} \ {NoRequest}
          [] s.pc = "replace" -> {invitationLock[i] : i \in {s.current} \ {NoRow}} \ {NoRequest}
          [] s.pc \in {"signUp", "account"} -> {invitationLock[s.invitation]} \ {NoRequest}
          [] s.pc = "insert" -> InsertWaitsFor(r)
          [] s.pc = "erased" -> {invitationLock[i] : i \in UnrevokedOf(s.user)} \ {NoRequest}
          [] OTHER -> {}

Begin(r, state) ==
    /\ req[r] = Idle
    /\ req' = [req EXCEPT ![r] = state]
    /\ UNCHANGED <<database, userLock, invitationLock>>

Return(r) ==
    /\ req' = [req EXCEPT ![r] = Idle]
    /\ userLock' = [u \in Users |-> IF userLock[u] = r THEN NoRequest ELSE userLock[u]]
    /\ invitationLock' = [i \in Invitations |-> IF invitationLock[i] = r THEN NoRequest ELSE invitationLock[i]]

Refuse(r) == Return(r) /\ UNCHANGED database

\* A failed statement, a lost client, the end of the process.
Abort(r) == req[r] # Idle /\ Refuse(r)

\* The next statement of r can be executed.
At(r, pc) == req[r].pc = pc /\ Blockers(r) = {}

-----------------------------------------------------------------------------
(* Invitations. *)

NewInvitation(u) == [inviter |-> u, revoked |-> FALSE, expired |-> FALSE]

\* The CLI makes an invitation without an inviter.
CreateInvitation(i) ==
    /\ ~Made(i)
    /\ invitations' = [invitations EXCEPT ![i] = NewInvitation(Admin)]
    /\ UNCHANGED <<users, redemptions, confirmations, userLock, invitationLock, req>>

InvitationExpires(i) ==
    /\ Made(i) /\ ~invitations[i].expired
    /\ invitations' = [invitations EXCEPT ![i].expired = TRUE]
    /\ UNCHANGED <<users, redemptions, confirmations, userLock, invitationLock, req>>

\* The page is opened and finds no usable invitation, or none at all.
PrepareInvitation(r, u) ==
    /\ Alive(u) /\ RedemptionsOf(u) < RedemptionLimit
    /\ ~\E i \in UnrevokedOf(u) : IsUsable(i)
    /\ \E current \in IF UnrevokedOf(u) = {} THEN {NoRow} ELSE UnrevokedOf(u) :
          Begin(r, [pc |-> "renew", user |-> u, current |-> current])

\* The invitation that an earlier page showed is to be made anew.
RecreateInvitation(r, u, current) ==
    /\ Alive(u)
    /\ current \in InvitationsOf(u)
    /\ Begin(r, [pc |-> "renew", user |-> u, current |-> current])

LockInviter(r) ==
    /\ At(r, "renew")
    /\ IF Alive(req[r].user)
       THEN /\ req' = [req EXCEPT ![r].pc = "replace"]
            /\ userLock' = [userLock EXCEPT ![req[r].user] = r]
            /\ UNCHANGED <<database, invitationLock>>
       ELSE Refuse(r)

RevokeCurrent(rows, current) ==
    IF current = NoRow THEN rows ELSE [rows EXCEPT ![current].revoked = TRUE]

\* ON CONFLICT: none is made while one stands.
\* Bound: while an id is left.
CreateUnlessUnrevokedExists(rows, u) ==
    IF \E i \in Invitations : rows[i] # NoRow /\ rows[i].inviter = u /\ ~rows[i].revoked
    THEN {rows}
    ELSE {[rows EXCEPT ![i] = NewInvitation(u)] : i \in {j \in Invitations : rows[j] = NoRow}}

Replaced(r) == CreateUnlessUnrevokedExists(RevokeCurrent(invitations, req[r].current), req[r].user)

\* Wrong on purpose: the old link is revoked even when there is to be no other.
ReplaceBeforeCounting(r) ==
    /\ At(r, "replace")
    /\ IF RedemptionsOf(req[r].user) >= RedemptionLimit
       THEN invitations' = RevokeCurrent(invitations, req[r].current)
       ELSE invitations' \in Replaced(r)
    /\ Return(r)
    /\ UNCHANGED <<users, redemptions, confirmations>>

\* The inviter and the invitation are locked; the redemptions are counted
\* again, the current invitation is revoked and another made.
ReplaceInvitation(r) ==
    /\ At(r, "replace")
    /\ IF RedemptionsOf(req[r].user) >= RedemptionLimit
       THEN Refuse(r)
       ELSE /\ invitations' \in Replaced(r)
            /\ Return(r)
            /\ UNCHANGED <<users, redemptions, confirmations>>

-----------------------------------------------------------------------------
(* The mail address. *)

NewConfirmation(e) == [email |-> e, failed |-> 0, confirmed |-> FALSE, expired |-> FALSE]

CreateSignUpBegin(r, i, e) ==
    /\ IsUsable(i)
    /\ Begin(r, [pc |-> "signUp", invitation |-> i, email |-> e])

\* The invitation is held FOR SHARE while the row and the job are inserted.
CreateSignUpCommit(r) ==
    /\ At(r, "signUp")
    /\ IF IsUsable(req[r].invitation)
       THEN /\ \E c \in Confirmations :
                  /\ confirmations[c] = NoRow
                  /\ confirmations' = [confirmations EXCEPT ![c] = NewConfirmation(req[r].email)]
            /\ Return(r)
            /\ UNCHANGED <<users, invitations, redemptions>>
       ELSE Refuse(r)

\* Wrong on purpose: one attempt too many.
VerifyOffByOne(row, right) ==
    IF row.confirmed \/ row.expired \/ row.failed > MaxFailedAttempts
    THEN row
    ELSE IF right THEN [row EXCEPT !.confirmed = TRUE] ELSE [row EXCEPT !.failed = @ + 1]

Verify(row, right) ==
    IF row.confirmed \/ row.expired \/ row.failed >= MaxFailedAttempts
    THEN row
    ELSE IF right THEN [row EXCEPT !.confirmed = TRUE] ELSE [row EXCEPT !.failed = @ + 1]

VerifyEmailConfirmation(c, right) ==
    /\ Stored(c)
    /\ confirmations' = [confirmations EXCEPT ![c] = Verify(@, right)]
    /\ UNCHANGED <<users, invitations, redemptions, userLock, invitationLock, req>>

ConfirmationExpires(c) ==
    /\ Stored(c) /\ ~confirmations[c].expired
    /\ confirmations' = [confirmations EXCEPT ![c].expired = TRUE]
    /\ UNCHANGED <<users, invitations, redemptions, userLock, invitationLock, req>>

Without(cs) == [c \in Confirmations |-> IF c \in cs THEN Deleted ELSE confirmations[c]]

\* The periodic job, some time after the expiry; a row that a registration is
\* deleting is gone by the time it gets there.
DeleteExpiredEmailConfirmations ==
    /\ \E cs \in SUBSET {c \in Confirmations : Stored(c) /\ confirmations[c].expired} :
          cs # {} /\ confirmations' = Without(cs)
    /\ UNCHANGED <<users, invitations, redemptions, userLock, invitationLock, req>>

-----------------------------------------------------------------------------
(* The account. *)

CreateAccountBegin(r, c, i) ==
    /\ Confirmed(c)
    /\ IsUsable(i)
    /\ ~Registered(confirmations[c].email)
    /\ Begin(r, [pc |-> "account", invitation |-> i, confirmation |-> c, email |-> confirmations[c].email])

\* Wrong on purpose: what was read before the lock is taken to hold.
StillUsable(i) == TRUE

\* Wrong on purpose: only the room is counted again.
StillHasRoom(i) == HasRoom(i)

UsableWhenLocked(i) == IsUsable(i)

CreateAccountLock(r) ==
    /\ At(r, "account")
    /\ IF UsableWhenLocked(req[r].invitation)
       THEN /\ invitationLock' = [invitationLock EXCEPT ![req[r].invitation] = r]
            /\ req' = [req EXCEPT ![r].pc = "insert"]
            /\ UNCHANGED <<database, userLock>>
       ELSE Refuse(r)

InsertedIds == {req[r].user : r \in {q \in Requests : req[q].pc = "made"}}

\* The unique address: an insert waits for one that may still fail, and for a
\* deletion that is giving the address back.
CreateAccountInsert(r) ==
    /\ At(r, "insert")
    /\ IF Registered(req[r].email)
       THEN Refuse(r)
       ELSE /\ \E u \in Users \ InsertedIds :
                  /\ users[u] = NoRow
                  /\ req' = [req EXCEPT ![r] =
                                [pc |-> "made", invitation |-> @.invitation, confirmation |-> @.confirmation,
                                 email |-> @.email, user |-> u]]
            /\ UNCHANGED <<database, userLock, invitationLock>>

\* Wrong on purpose: whether a row was deleted is not looked at.
DeletesAny(c) == TRUE

DeletesConfirmed(c) == Confirmed(c)

CreateAccountCommit(r) ==
    /\ At(r, "made")
    /\ LET s == req[r]
       IN  IF DeletesConfirmed(s.confirmation)
           THEN /\ users' = [users EXCEPT ![s.user] = [email |-> s.email, alive |-> TRUE, by |-> s.confirmation]]
                /\ redemptions' = redemptions \cup {[invitation |-> s.invitation, user |-> s.user]}
                /\ confirmations' = Without({s.confirmation})
                /\ Return(r)
                /\ UNCHANGED invitations
           ELSE Refuse(r)

-----------------------------------------------------------------------------
(* The deletion of an account. *)

DeleteAccountBegin(r, u) == Alive(u) /\ Begin(r, [pc |-> "delete", user |-> u])

\* Locked and changed; the old address is not free before the commit.
WithdrawUser(r) ==
    /\ At(r, "delete")
    /\ IF Alive(req[r].user)
       THEN /\ req' = [req EXCEPT ![r].pc = "withdrawn"]
            /\ userLock' = [userLock EXCEPT ![req[r].user] = r]
            /\ UNCHANGED <<database, invitationLock>>
       ELSE Refuse(r)

\* DeleteEmailConfirmationsByEmail takes the rows that are there now.
DeleteByEmail(r) ==
    /\ At(r, "withdrawn")
    /\ req' = [req EXCEPT ![r] =
                 [pc |-> "erased", user |-> @.user,
                  found |-> {c \in Confirmations : Stored(c) /\ confirmations[c].email = users[@.user].email}]]
    /\ UNCHANGED <<database, userLock, invitationLock>>

\* RevokeUnrevokedInvitationsByInviterUserID and the commit.
DeleteAccountCommit(r) ==
    /\ At(r, "erased")
    /\ LET s == req[r]
       IN  /\ users' = [users EXCEPT ![s.user].alive = FALSE]
           /\ confirmations' = Without(s.found)
           /\ invitations' = [i \in Invitations |-> IF i \in UnrevokedOf(s.user)
                                                    THEN [invitations[i] EXCEPT !.revoked = TRUE]
                                                    ELSE invitations[i]]
    /\ Return(r)
    /\ UNCHANGED redemptions

-----------------------------------------------------------------------------
BeginRequest(r) ==
    \/ \E u \in Users :
          \/ PrepareInvitation(r, u)
          \/ \E i \in Invitations : RecreateInvitation(r, u, i)
          \/ DeleteAccountBegin(r, u)
    \/ \E i \in Invitations :
          \/ \E e \in Emails : CreateSignUpBegin(r, i, e)
          \/ \E c \in Confirmations : CreateAccountBegin(r, c, i)

Continue(r) ==
    \/ LockInviter(r)
    \/ ReplaceInvitation(r)
    \/ CreateSignUpCommit(r)
    \/ CreateAccountLock(r)
    \/ CreateAccountInsert(r)
    \/ CreateAccountCommit(r)
    \/ WithdrawUser(r)
    \/ DeleteByEmail(r)
    \/ DeleteAccountCommit(r)

Next ==
    \/ \E r \in Requests : BeginRequest(r) \/ Continue(r) \/ Abort(r)
    \/ \E i \in Invitations : CreateInvitation(i) \/ InvitationExpires(i)
    \/ \E c \in Confirmations :
          \/ \E right \in BOOLEAN : VerifyEmailConfirmation(c, right)
          \/ ConfirmationExpires(c)
    \/ DeleteExpiredEmailConfirmations

Spec == Init /\ [][Next]_vars

-----------------------------------------------------------------------------
(* What must hold. *)

\* However registrations and renewals overlap, and whoever of the registered
\* leaves again, nobody's invitations admit more than the limit, and none of
\* the CLI more than one.
LimitsHold ==
    /\ \A u \in Users : RedemptionsOf(u) <= RedemptionLimit
    /\ \A i \in Invitations :
          Made(i) /\ invitations[i].inviter = Admin =>
              Cardinality({d \in redemptions : d.invitation = i}) <= 1

\* One who has an invitation keeps exactly one that is not revoked, the link
\* on the page, through renewals from several tabs; one who has left has none,
\* although renewals begun before may still be on their way.
InvitersKeepOneLink ==
    \A u \in Users :
        IF Alive(u)
        THEN InvitationsOf(u) # {} => Cardinality(UnrevokedOf(u)) = 1
        ELSE UnrevokedOf(u) = {}

\* At the instant a registration commits, its invitation is not revoked and
\* its inviter has not left, although both were looked at before.
StandingInvitationsAdmit ==
    [][\A d \in redemptions' \ redemptions :
          /\ ~invitations[d.invitation].revoked
          /\ invitations[d.invitation].inviter # Admin => Alive(invitations[d.invitation].inviter)]_vars

\* A confirmed address makes one account, also when the form is sent twice
\* and the first account has been deleted again in the meantime.
ConfirmationsServeOnce ==
    \A u, v \in Users :
        u # v /\ users[u] # NoRow /\ users[v] # NoRow /\ users[u].by # NoRow => users[u].by # users[v].by

\* Registrations, renewals and deletions never wait for each other in a
\* circle: over the locks of users and invitations and the unique address.
NoCircleOfWaits ==
    \A circle \in (SUBSET Requests) \ {{}} : \E r \in circle : Blockers(r) \cap circle = {}

=============================================================================
