-------------------------- MODULE RegistrationProofs --------------------------
(***************************************************************************)
(* Theorems about Registration, for any number of users, addresses,        *)
(* invitations, confirmations and requests.                                *)
(***************************************************************************)
EXTENDS Registration, FiniteSetTheorems, TLAPS

-----------------------------------------------------------------------------
(* The invariant. *)

\* What request r in state s relies on: who renews or deletes holds a user who
\* is there, who registers holds an invitation that stands and has room.
InOrder(r, s) ==
    /\ s.pc \in {"renew", "replace"} => s.current \in InvitationsOf(s.user) \cup {NoRow}
    /\ s.pc \in {"replace", "withdrawn", "erased"} => userLock[s.user] = r /\ Alive(s.user)
    /\ s.pc \in {"insert", "made"} =>
          /\ invitationLock[s.invitation] = r
          /\ Made(s.invitation) /\ ~invitations[s.invitation].revoked /\ HasRoom(s.invitation)
    /\ s.pc = "made" => users[s.user] = NoRow

RequestsAreInOrder == \A r \in Requests : InOrder(r, req[r])

IdsAreTakenOnce ==
    \A q, r \in Requests :
        q # r /\ req[q].pc = "made" /\ req[r].pc = "made" => req[q].user # req[r].user

InvitersExist ==
    \A i \in Invitations :
        Made(i) /\ invitations[i].inviter # Admin => users[invitations[i].inviter] # NoRow

RedemptionsAreOfInvitations == IsFiniteSet(redemptions) /\ \A d \in redemptions : Made(d.invitation)

OneLink(u) ==
    IF Alive(u)
    THEN InvitationsOf(u) = {} \/ \E i \in Invitations : UnrevokedOf(u) = {i}
    ELSE UnrevokedOf(u) = {}

\* The confirmation an account was made with is gone for good.
ConfirmationsAreSpent ==
    \A u \in Users :
        users[u] # NoRow /\ users[u].by # NoRow => confirmations[users[u].by] = Deleted

RowsAreInOrder ==
    /\ InvitersExist
    /\ RedemptionsAreOfInvitations
    /\ \A u \in Users : OneLink(u)
    /\ ConfirmationsAreSpent
    /\ ConfirmationsServeOnce
    /\ LimitsHold

Inv ==
    /\ TypeOK
    /\ RequestsAreInOrder
    /\ IdsAreTakenOnce
    /\ RowsAreInOrder

-----------------------------------------------------------------------------
(* Types, and what keeps what a request relies on. *)

LEMMA RowsHaveTheirFields ==
    ASSUME TypeOK
    PROVE  /\ \A i \in Invitations : Made(i) =>
                  /\ invitations[i] \in InvitationRows
                  /\ invitations[i].inviter \in Users \cup {Admin}
                  /\ invitations[i].revoked \in BOOLEAN
           /\ \A u \in Users : users[u] # NoRow =>
                  /\ users[u] \in UserRows
                  /\ users[u].alive \in BOOLEAN
                  /\ users[u].email \in Emails
                  /\ users[u].by \in Confirmations \cup {NoRow}
           /\ \A c \in Confirmations : Stored(c) => confirmations[c] \in ConfirmationRows
BY DEF TypeOK, Made, Stored, InvitationRows, UserRows

LEMMA RequestsHaveTheirFields ==
    ASSUME TypeOK, NEW r \in Requests
    PROVE  /\ req[r].pc \in {"renew", "replace"} =>
                 req[r].user \in Users /\ req[r].current \in Invitations \cup {NoRow}
           /\ req[r].pc = "signUp" => req[r].invitation \in Invitations /\ req[r].email \in Emails
           /\ req[r].pc \in {"account", "insert", "made"} =>
                 /\ req[r].invitation \in Invitations /\ req[r].confirmation \in Confirmations
                 /\ req[r].email \in Emails
           /\ req[r].pc \in {"made", "delete", "withdrawn", "erased"} => req[r].user \in Users
           /\ req[r].pc = "erased" => req[r].found \in SUBSET Confirmations
BY DEF TypeOK, RequestStates, Idle

LEMMA RestIsInOrder == Idle \in RequestStates /\ Idle.pc = "idle"
BY DEF Idle, RequestStates

\* A request that goes on does not wait: what it is about to lock is free.
LEMMA NobodyIsWaitedFor ==
    ASSUME TypeOK, NEW r \in Requests, Blockers(r) = {}
    PROVE  /\ req[r].pc \in {"renew", "delete"} => userLock[req[r].user] = NoRequest
           /\ req[r].pc = "replace" /\ req[r].current # NoRow => invitationLock[req[r].current] = NoRequest
           /\ req[r].pc \in {"signUp", "account"} => invitationLock[req[r].invitation] = NoRequest
           /\ req[r].pc = "erased" => \A i \in UnrevokedOf(req[r].user) : invitationLock[i] = NoRequest
<1>1. CASE req[r].pc \in {"renew", "delete"}
  BY <1>1 DEF Blockers
<1>2. CASE req[r].pc = "replace"
  BY <1>2 DEF Blockers
<1>3. CASE req[r].pc \in {"signUp", "account"}
  BY <1>3 DEF Blockers
<1>4. CASE req[r].pc = "erased"
  BY <1>4 DEF Blockers
<1>5. QED  BY <1>1, <1>2, <1>3, <1>4

LEMMA FreedLocks ==
    ASSUME TypeOK, NEW r \in Requests, Return(r)
    PROVE  /\ userLock' \in [Users -> Requests \cup {NoRequest}]
           /\ invitationLock' \in [Invitations -> Requests \cup {NoRequest}]
           /\ req' \in [Requests -> RequestStates] /\ req'[r] = Idle
           /\ \A q \in Requests \ {r} :
                 /\ req'[q] = req[q]
                 /\ \A u \in Users : userLock[u] = q => userLock'[u] = q
                 /\ \A i \in Invitations : invitationLock[i] = q => invitationLock'[i] = q
BY RestIsInOrder, NoRequestIsNoRequest DEF TypeOK, Return

Standing(i) == Made(i) /\ ~invitations[i].revoked /\ HasRoom(i)

\* The step takes nothing away from what q relies on.
Undisturbed(q) ==
    /\ \A u \in Users : userLock[u] = q => userLock'[u] = q /\ (Alive(u) => Alive(u)')
    /\ \A i \in Invitations : Made(i) => Made(i)' /\ invitations'[i].inviter = invitations[i].inviter
    /\ \A i \in Invitations :
          invitationLock[i] = q /\ Standing(i) => invitationLock'[i] = q /\ Standing(i)'
    /\ req[q].pc = "made" => users'[req[q].user] = NoRow

LEMMA StepsKeepInv ==
    ASSUME Inv, TypeOK',
           \A q \in Requests : (req'[q] = req[q] /\ Undisturbed(q)) \/ InOrder(q, req[q])',
           IdsAreTakenOnce', RowsAreInOrder'
    PROVE  Inv'
<1> SUFFICES ASSUME NEW q \in Requests, req'[q] = req[q], Undisturbed(q)
             PROVE  InOrder(q, req[q])'
  BY DEF Inv, RequestsAreInOrder
<1>1. InOrder(q, req[q])
  BY DEF Inv, RequestsAreInOrder
<1>2. ASSUME req[q].pc \in {"renew", "replace"}
      PROVE  (req[q].current \in InvitationsOf(req[q].user) \cup {NoRow})'
  BY <1>1, <1>2 DEF InOrder, Undisturbed, InvitationsOf
<1>3. ASSUME req[q].pc \in {"replace", "withdrawn", "erased"}
      PROVE  userLock'[req[q].user] = q /\ Alive(req[q].user)'
  <2>1. req[q].user \in Users
    BY <1>3, RequestsHaveTheirFields DEF Inv
  <2>2. userLock[req[q].user] = q /\ Alive(req[q].user)
    BY <1>1, <1>3 DEF InOrder
  <2>3. userLock'[req[q].user] = q /\ \A u : u = req[q].user => Alive(u)'
    BY <2>1, <2>2 DEF Undisturbed
  <2>4. QED  BY <2>3
<1>4. ASSUME req[q].pc \in {"insert", "made"}
      PROVE  invitationLock'[req[q].invitation] = q /\ Standing(req[q].invitation)'
  <2>1. req[q].invitation \in Invitations
    BY <1>4, RequestsHaveTheirFields DEF Inv
  <2>2. invitationLock[req[q].invitation] = q /\ Standing(req[q].invitation)
    BY <1>1, <1>4 DEF InOrder, Standing
  <2>3. invitationLock'[req[q].invitation] = q /\ \A i : i = req[q].invitation => Standing(i)'
    BY <2>1, <2>2 DEF Undisturbed
  <2>4. QED  BY <2>3
<1>5. req[q].pc = "made" => users'[req[q].user] = NoRow
  BY DEF Undisturbed
<1>6. QED  BY <1>2, <1>3, <1>4, <1>5 DEF InOrder, Standing

-----------------------------------------------------------------------------
(* Steps that write no row. *)

LEMMA InitHasInv == Init => Inv
<1> SUFFICES ASSUME Init
             PROVE  Inv
  OBVIOUS
<1>1. TypeOK
  BY FounderIsAUser, RestIsInOrder DEF Init, TypeOK, UserRows
<1>2. \A r \in Requests : req[r].pc = "idle"
  BY RestIsInOrder DEF Init
<1>3. RequestsAreInOrder /\ IdsAreTakenOnce
  BY <1>2 DEF RequestsAreInOrder, InOrder, IdsAreTakenOnce
<1>4. /\ \A i \in Invitations : ~Made(i)
      /\ redemptions = {} /\ IsFiniteSet({}) /\ Cardinality({}) = 0
  BY FS_EmptySet DEF Init, Made
<1>5. InvitersExist /\ RedemptionsAreOfInvitations
  BY <1>4 DEF InvitersExist, RedemptionsAreOfInvitations
<1>6. \A u \in Users : InvitationsOf(u) = {} /\ UnrevokedOf(u) = {}
  BY <1>4 DEF InvitationsOf, UnrevokedOf
<1>7. \A u \in Users : OneLink(u)
  BY <1>6 DEF OneLink
<1>8. ConfirmationsAreSpent /\ ConfirmationsServeOnce
  BY NoRowIsNoRow, FounderIsAUser DEF Init, ConfirmationsAreSpent, ConfirmationsServeOnce
<1>9. LimitsHold
  <2>1. \A u \in Users : RedemptionsOf(u) = 0
    <3> SUFFICES ASSUME NEW u \in Users
                 PROVE  RedemptionsOf(u) = 0
      OBVIOUS
    <3>1. {d \in redemptions : d.invitation \in InvitationsOf(u)} = {}
      BY <1>4
    <3>2. QED  BY <1>4, <3>1 DEF RedemptionsOf
  <2>2. QED  BY <1>4, <2>1, LimitsAreNumbers DEF LimitsHold
<1>10. QED  BY <1>1, <1>3, <1>5, <1>7, <1>8, <1>9 DEF Inv, RowsAreInOrder

\* The rows are what they were.
LEMMA SameRows ==
    ASSUME UNCHANGED database
    PROVE  /\ RowsAreInOrder <=> RowsAreInOrder'
           /\ \A u \in Users : Alive(u) <=> Alive(u)'
           /\ \A i \in Invitations : (Made(i) <=> Made(i)') /\ (Standing(i) <=> Standing(i)')
           /\ \A u : InvitationsOf(u) = InvitationsOf(u)'
BY DEF database, RowsAreInOrder, InvitersExist, RedemptionsAreOfInvitations, OneLink, ConfirmationsAreSpent,
   ConfirmationsServeOnce, LimitsHold, Alive, Made, Standing, HasRoom, RedemptionsOf, InvitationsOf, UnrevokedOf

\* A request that moves, takes what is free or gives back its own, and writes
\* nothing, keeps the invariant if its new state is in order.
LEMMA MovesKeepInv ==
    ASSUME Inv, NEW r \in Requests, NEW state \in RequestStates,
           req' = [req EXCEPT ![r] = state], UNCHANGED database,
           userLock' \in [Users -> Requests \cup {NoRequest}],
           invitationLock' \in [Invitations -> Requests \cup {NoRequest}],
           \A u \in Users : userLock[u] \notin {NoRequest, r} => userLock'[u] = userLock[u],
           \A i \in Invitations : invitationLock[i] \notin {NoRequest, r} => invitationLock'[i] = invitationLock[i],
           \A s : s = state => InOrder(r, s)',
           state.pc = "made" =>
               \A q \in Requests \ {r} : req[q].pc = "made" => req[q].user # state.user
    PROVE  Inv'
<1>1. \A q \in Requests : req'[q] = IF q = r THEN state ELSE req[q]
  BY DEF Inv, TypeOK
<1>2. TypeOK'
  BY DEF Inv, TypeOK, database
<1>3. \A q \in Requests : (req'[q] = req[q] /\ Undisturbed(q)) \/ InOrder(q, req[q])'
  <2> SUFFICES ASSUME NEW q \in Requests
               PROVE  (req'[q] = req[q] /\ Undisturbed(q)) \/ InOrder(q, req[q])'
    OBVIOUS
  <2>1. CASE q = r
    BY <1>1, <2>1
  <2>2. CASE q # r
    <3>1. req'[q] = req[q]
      BY <1>1, <2>2
    <3>2. /\ \A u \in Users : userLock[u] = q => userLock'[u] = q
          /\ \A i \in Invitations : invitationLock[i] = q => invitationLock'[i] = q
      BY <2>2, NoRequestIsNoRequest
    <3>3. req[q].pc = "made" => users'[req[q].user] = NoRow
      BY DEF Inv, RequestsAreInOrder, InOrder, database
    <3>4. invitations' = invitations
      BY DEF database
    <3>5. Undisturbed(q)
      BY <3>2, <3>3, <3>4, SameRows DEF Undisturbed
    <3>6. QED  BY <3>1, <3>5
  <2>3. QED  BY <2>1, <2>2
<1>4. IdsAreTakenOnce'
  BY <1>1 DEF Inv, IdsAreTakenOnce
<1>5. RowsAreInOrder'
  BY SameRows DEF Inv
<1>6. QED  BY <1>2, <1>3, <1>4, <1>5, StepsKeepInv

LEMMA BeginKeepsInv ==
    ASSUME Inv, NEW r \in Requests, NEW state \in RequestStates, Begin(r, state),
           state.pc \in {"renew", "signUp", "account", "delete"},
           state.pc = "renew" => state.current \in InvitationsOf(state.user) \cup {NoRow}
    PROVE  Inv'
<1>1. /\ UNCHANGED database /\ req' = [req EXCEPT ![r] = state]
      /\ userLock' = userLock /\ invitationLock' = invitationLock
  BY DEF Begin
<1>2. \A s : s = state => InOrder(r, s)'
  BY <1>1, SameRows DEF InOrder
<1>3. /\ userLock \in [Users -> Requests \cup {NoRequest}]
      /\ invitationLock \in [Invitations -> Requests \cup {NoRequest}]
  BY DEF Inv, TypeOK
<1>4. QED  BY <1>1, <1>2, <1>3, MovesKeepInv

LEMMA RefuseKeepsInv ==
    ASSUME Inv, NEW r \in Requests, Refuse(r)
    PROVE  Inv'
<1>1. /\ Return(r) /\ UNCHANGED database /\ req' = [req EXCEPT ![r] = Idle]
  BY DEF Refuse, Return
<1>2. /\ userLock' \in [Users -> Requests \cup {NoRequest}]
      /\ invitationLock' \in [Invitations -> Requests \cup {NoRequest}]
      /\ \A u \in Users : userLock[u] \notin {NoRequest, r} => userLock'[u] = userLock[u]
      /\ \A i \in Invitations : invitationLock[i] \notin {NoRequest, r} => invitationLock'[i] = invitationLock[i]
  BY <1>1, FreedLocks DEF Inv, Return, TypeOK
<1>3. \A s : s = Idle => InOrder(r, s)'
  BY RestIsInOrder DEF InOrder
<1>4. QED  BY <1>1, <1>2, <1>3, RestIsInOrder, MovesKeepInv

LEMMA PrepareInvitationKeepsInv ==
    ASSUME Inv, NEW r \in Requests, NEW u \in Users, PrepareInvitation(r, u)
    PROVE  Inv'
<1>1. PICK current \in InvitationsOf(u) \cup {NoRow} :
          Begin(r, [pc |-> "renew", user |-> u, current |-> current])
  BY DEF PrepareInvitation, UnrevokedOf
<1> DEFINE state == [pc |-> "renew", user |-> u, current |-> current]
<1>2. state \in RequestStates
  BY DEF RequestStates, InvitationsOf
<1>3. QED  BY <1>1, <1>2, BeginKeepsInv

LEMMA RecreateInvitationKeepsInv ==
    ASSUME Inv, NEW r \in Requests, NEW u \in Users, NEW i \in Invitations, RecreateInvitation(r, u, i)
    PROVE  Inv'
<1> DEFINE state == [pc |-> "renew", user |-> u, current |-> i]
<1>1. state \in RequestStates /\ i \in InvitationsOf(u) /\ Begin(r, state)
  BY DEF RequestStates, RecreateInvitation
<1>2. QED  BY <1>1, BeginKeepsInv

LEMMA DeleteAccountBeginKeepsInv ==
    ASSUME Inv, NEW r \in Requests, NEW u \in Users, DeleteAccountBegin(r, u)
    PROVE  Inv'
<1> DEFINE state == [pc |-> "delete", user |-> u]
<1>1. state \in RequestStates /\ Begin(r, state)
  BY DEF RequestStates, DeleteAccountBegin
<1>2. QED  BY <1>1, BeginKeepsInv

LEMMA CreateSignUpBeginKeepsInv ==
    ASSUME Inv, NEW r \in Requests, NEW i \in Invitations, NEW e \in Emails, CreateSignUpBegin(r, i, e)
    PROVE  Inv'
<1> DEFINE state == [pc |-> "signUp", invitation |-> i, email |-> e]
<1>1. state \in RequestStates /\ Begin(r, state)
  BY DEF RequestStates, CreateSignUpBegin
<1>2. QED  BY <1>1, BeginKeepsInv

LEMMA CreateAccountBeginKeepsInv ==
    ASSUME Inv, NEW r \in Requests, NEW c \in Confirmations, NEW i \in Invitations, CreateAccountBegin(r, c, i)
    PROVE  Inv'
<1> DEFINE state == [pc |-> "account", invitation |-> i, confirmation |-> c, email |-> confirmations[c].email]
<1>1. confirmations[c].email \in Emails
  BY RowsHaveTheirFields DEF Inv, CreateAccountBegin, Confirmed, ConfirmationRows
<1>2. state \in RequestStates /\ Begin(r, state)
  BY <1>1 DEF RequestStates, CreateAccountBegin
<1>3. QED  BY <1>2, BeginKeepsInv

LEMMA LockInviterKeepsInv ==
    ASSUME Inv, NEW r \in Requests, LockInviter(r)
    PROVE  Inv'
<1>1. CASE Refuse(r)
  BY <1>1, RefuseKeepsInv
<1>2. CASE ~Refuse(r)
  <2> DEFINE u == req[r].user
             state == [req[r] EXCEPT !.pc = "replace"]
  <2>1. /\ req[r].pc = "renew" /\ Alive(u) /\ userLock[u] = NoRequest
        /\ req' = [req EXCEPT ![r] = state] /\ userLock' = [userLock EXCEPT ![u] = r]
        /\ UNCHANGED <<database, invitationLock>>
    BY <1>2, NobodyIsWaitedFor DEF LockInviter, At, Inv, TypeOK
  <2>2. /\ req[r] \in [pc: {"renew", "replace"}, user: Users, current: Invitations \cup {NoRow}]
        /\ req[r].current \in InvitationsOf(u) \cup {NoRow}
    BY <2>1 DEF Inv, TypeOK, RequestStates, Idle, RequestsAreInOrder, InOrder
  <2>3. state \in RequestStates /\ state.pc = "replace" /\ state.user = u /\ state.current = req[r].current
    BY <2>2 DEF RequestStates
  <2>4. u \in Users
    BY <2>2
  <2> HIDE DEF u, state
  <2>5. /\ userLock' \in [Users -> Requests \cup {NoRequest}] /\ userLock'[u] = r
        /\ invitationLock' \in [Invitations -> Requests \cup {NoRequest}]
        /\ \A v \in Users : userLock[v] \notin {NoRequest, r} => userLock'[v] = userLock[v]
    BY <2>1, <2>4 DEF Inv, TypeOK
  <2>6. \A s : s = state => InOrder(r, s)'
    BY <2>1, <2>2, <2>3, <2>4, <2>5, SameRows DEF InOrder
  <2>7. QED  BY <2>1, <2>3, <2>5, <2>6, MovesKeepInv
<1>3. QED  BY <1>1, <1>2

LEMMA CreateAccountLockKeepsInv ==
    ASSUME Inv, NEW r \in Requests, CreateAccountLock(r)
    PROVE  Inv'
<1>1. CASE Refuse(r)
  BY <1>1, RefuseKeepsInv
<1>2. CASE ~Refuse(r)
  <2> DEFINE state == [req[r] EXCEPT !.pc = "insert"]
  <2>0. PICK i : i = req[r].invitation
    OBVIOUS
  <2>1. /\ req[r].pc = "account" /\ Standing(i) /\ invitationLock[i] = NoRequest
        /\ req' = [req EXCEPT ![r] = state] /\ invitationLock' = [invitationLock EXCEPT ![i] = r]
        /\ UNCHANGED <<database, userLock>>
    BY <1>2, <2>0, NobodyIsWaitedFor DEF CreateAccountLock, At, Inv, TypeOK, UsableWhenLocked, IsUsable, Standing
  <2>2. req[r] \in [pc: {"account", "insert"}, invitation: Invitations, confirmation: Confirmations, email: Emails]
    BY <2>1 DEF Inv, TypeOK, RequestStates, Idle
  <2>3. state \in RequestStates /\ state.pc = "insert" /\ state.invitation = i
    BY <2>0, <2>2 DEF RequestStates
  <2>4. i \in Invitations
    BY <2>0, <2>2
  <2> HIDE DEF state
  <2>5. /\ userLock' \in [Users -> Requests \cup {NoRequest}]
        /\ invitationLock' \in [Invitations -> Requests \cup {NoRequest}] /\ invitationLock'[i] = r
        /\ \A j \in Invitations : invitationLock[j] \notin {NoRequest, r} => invitationLock'[j] = invitationLock[j]
    BY <2>1, <2>4 DEF Inv, TypeOK
  <2>6. Standing(i)'
    BY <2>1, <2>4, SameRows
  <2>7. \A s : s = state => InOrder(r, s)'
    BY <2>3, <2>5, <2>6 DEF InOrder, Standing
  <2>8. QED  BY <2>1, <2>3, <2>5, <2>7, MovesKeepInv
<1>3. QED  BY <1>1, <1>2

LEMMA CreateAccountInsertKeepsInv ==
    ASSUME Inv, NEW r \in Requests, CreateAccountInsert(r)
    PROVE  Inv'
<1>1. CASE Refuse(r)
  BY <1>1, RefuseKeepsInv
<1>2. CASE ~Refuse(r)
  <2>1. PICK u \in Users \ InsertedIds :
            /\ users[u] = NoRow
            /\ req' = [req EXCEPT ![r] =
                          [pc |-> "made", invitation |-> @.invitation, confirmation |-> @.confirmation,
                           email |-> @.email, user |-> u]]
            /\ UNCHANGED <<database, userLock, invitationLock>>
    BY <1>2 DEF CreateAccountInsert
  <2>0. PICK i : i = req[r].invitation
    OBVIOUS
  <2> DEFINE state == [pc |-> "made", invitation |-> i, confirmation |-> req[r].confirmation,
                       email |-> req[r].email, user |-> u]
  <2>2. /\ req[r].pc = "insert" /\ req' = [req EXCEPT ![r] = state]
        /\ i \in Invitations /\ req[r].confirmation \in Confirmations /\ req[r].email \in Emails
    BY <2>0, <2>1, RequestsHaveTheirFields DEF CreateAccountInsert, At, Inv, TypeOK
  <2>3. state \in RequestStates /\ state.pc = "made" /\ state.invitation = i /\ state.user = u
    BY <2>2 DEF RequestStates
  <2>4. invitationLock[i] = r /\ Standing(i)
    BY <2>0, <2>2 DEF Inv, RequestsAreInOrder, InOrder, Standing
  <2> HIDE DEF state
  <2>5. Standing(i)' /\ users'[u] = NoRow /\ invitationLock'[i] = r
    BY <2>1, <2>2, <2>4, SameRows DEF database
  <2>6. \A s : s = state => InOrder(r, s)'
    BY <2>3, <2>5 DEF InOrder, Standing
  <2>7. /\ userLock' \in [Users -> Requests \cup {NoRequest}]
        /\ invitationLock' \in [Invitations -> Requests \cup {NoRequest}]
        /\ userLock' = userLock /\ invitationLock' = invitationLock
    BY <2>1 DEF Inv, TypeOK
  <2>8. \A q \in Requests \ {r} : req[q].pc = "made" => req[q].user # state.user
    BY <2>1, <2>3 DEF InsertedIds
  <2>9. QED  BY <2>1, <2>2, <2>3, <2>6, <2>7, <2>8, MovesKeepInv
<1>3. QED  BY <1>1, <1>2

-----------------------------------------------------------------------------
(* Steps that write rows: what is common to them. *)

\* A request returns; the others find what they rely on.
LEMMA ReturnsKeepInv ==
    ASSUME Inv, TypeOK', NEW r \in Requests, Return(r),
           \A i \in Invitations : Made(i) => Made(i)' /\ invitations'[i].inviter = invitations[i].inviter,
           \A q \in Requests \ {r} :
              /\ \A u \in Users : userLock[u] = q /\ Alive(u) => Alive(u)'
              /\ \A i \in Invitations : invitationLock[i] = q /\ Standing(i) => Standing(i)'
              /\ req[q].pc = "made" => users'[req[q].user] = NoRow,
           RowsAreInOrder'
    PROVE  Inv'
<1>1. /\ req'[r] = Idle
      /\ \A q \in Requests \ {r} :
            /\ req'[q] = req[q]
            /\ \A u \in Users : userLock[u] = q => userLock'[u] = q
            /\ \A i \in Invitations : invitationLock[i] = q => invitationLock'[i] = q
  BY FreedLocks DEF Inv
<1>2. \A q \in Requests \ {r} : req'[q] = req[q] /\ Undisturbed(q)
  BY <1>1 DEF Undisturbed
<1>3. InOrder(r, req[r])'
  BY <1>1, RestIsInOrder DEF InOrder
<1>4. IdsAreTakenOnce'
  BY <1>1, RestIsInOrder DEF Inv, IdsAreTakenOnce
<1>5. QED  BY <1>2, <1>3, <1>4, StepsKeepInv

\* A step of no request, or one statement of its own.
LEMMA StatementsKeepInv ==
    ASSUME Inv, TypeOK', UNCHANGED <<users, userLock, invitationLock, req>>,
           \A i \in Invitations :
              /\ Made(i) => Made(i)' /\ invitations'[i].inviter = invitations[i].inviter
              /\ Standing(i) => Standing(i)',
           RowsAreInOrder'
    PROVE  Inv'
<1>1. \A q \in Requests : req[q].pc = "made" => users'[req[q].user] = NoRow
  BY DEF Inv, RequestsAreInOrder, InOrder
<1>2. \A q \in Requests : req'[q] = req[q] /\ Undisturbed(q)
  BY <1>1 DEF Undisturbed, Alive
<1>3. IdsAreTakenOnce'
  BY DEF Inv, IdsAreTakenOnce
<1>4. QED  BY <1>2, <1>3, StepsKeepInv

\* Redemptions count for the invitations that were there.
LEMMA RoomStays ==
    ASSUME Inv, redemptions' = redemptions,
           \A i \in Invitations : Made(i) => Made(i)' /\ invitations'[i].inviter = invitations[i].inviter
    PROVE  /\ RedemptionsAreOfInvitations' /\ LimitsHold'
           /\ \A i \in Invitations : Made(i) => (HasRoom(i) <=> HasRoom(i)')
<1>1. /\ redemptions \subseteq [invitation: Invitations, user: Users]
      /\ IsFiniteSet(redemptions)
      /\ \A d \in redemptions : d.invitation \in Invitations /\ Made(d.invitation)
  BY DEF Inv, TypeOK, RowsAreInOrder, RedemptionsAreOfInvitations
<1>2. RedemptionsAreOfInvitations'
  BY <1>1 DEF RedemptionsAreOfInvitations
<1>3. \A u : RedemptionsOf(u)' = RedemptionsOf(u)
  <2> SUFFICES ASSUME NEW u
               PROVE  RedemptionsOf(u)' = RedemptionsOf(u)
    OBVIOUS
  <2>1. \A d \in redemptions : d.invitation \in InvitationsOf(u)' <=> d.invitation \in InvitationsOf(u)
    BY <1>1 DEF InvitationsOf
  <2>2. {d \in redemptions : d.invitation \in InvitationsOf(u)}' = {d \in redemptions : d.invitation \in InvitationsOf(u)}
    BY <2>1
  <2>3. QED  BY <2>2 DEF RedemptionsOf
<1>4. \A i \in Invitations : Made(i) => (HasRoom(i) <=> HasRoom(i)')
  BY <1>3 DEF HasRoom
<1>5. LimitsHold'
  <2>1. LimitsHold
    BY DEF Inv, RowsAreInOrder
  <2>2. ASSUME NEW i \in Invitations, Made(i)', invitations'[i].inviter = Admin
        PROVE  Cardinality({d \in redemptions : d.invitation = i}) <= 1
    <3>1. CASE Made(i)
      BY <2>1, <2>2, <3>1 DEF LimitsHold
    <3>2. CASE ~Made(i)
      <4>1. {d \in redemptions : d.invitation = i} = {}
        BY <1>1, <3>2
      <4>2. Cardinality({d \in redemptions : d.invitation = i}) = 0
        BY <4>1, FS_EmptySet
      <4>3. QED  BY <4>2
    <3>3. QED  BY <3>1, <3>2
  <2>3. QED  BY <1>3, <2>1, <2>2 DEF LimitsHold
<1>6. QED  BY <1>2, <1>4, <1>5

-----------------------------------------------------------------------------
(* Invitations. *)

LEMMA NewInvitations ==
    ASSUME NEW u \in Users \cup {Admin}
    PROVE  /\ NewInvitation(u) \in InvitationRows /\ NewInvitation(u) # NoRow
           /\ NewInvitation(u).inviter = u /\ ~NewInvitation(u).revoked
<1>1. NewInvitation(u) \in InvitationRows /\ NewInvitation(u).inviter = u /\ ~NewInvitation(u).revoked
  BY DEF NewInvitation, InvitationRows
<1>2. NewInvitation(u) # NoRow
  BY <1>1, NoRowIsNoRow
<1>3. QED  BY <1>1, <1>2

LEMMA CreateInvitationKeepsInv ==
    ASSUME Inv, NEW i \in Invitations, CreateInvitation(i)
    PROVE  Inv'
<1> DEFINE row == NewInvitation(Admin)
<1>1. row \in InvitationRows /\ row # NoRow /\ row.inviter = Admin
  BY NewInvitations
<1> HIDE DEF row
<1>2. /\ ~Made(i) /\ invitations' = [invitations EXCEPT ![i] = row]
      /\ invitations \in [Invitations -> InvitationRows \cup {NoRow}]
      /\ UNCHANGED <<users, redemptions, confirmations, userLock, invitationLock, req>>
  BY DEF CreateInvitation, Inv, TypeOK, row
<1>3. /\ invitations'[i] = row /\ Made(i)'
      /\ \A j \in Invitations \ {i} : invitations'[j] = invitations[j]
      /\ \A j \in Invitations : Made(j) => j # i /\ Made(j)' /\ invitations'[j] = invitations[j]
  BY <1>1, <1>2 DEF Made
<1>4. TypeOK'
  BY <1>1, <1>2 DEF Inv, TypeOK
<1>5. /\ RedemptionsAreOfInvitations' /\ LimitsHold'
      /\ \A j \in Invitations : Made(j) => (HasRoom(j) <=> HasRoom(j)')
  BY <1>2, <1>3, RoomStays
<1>6. \A u \in Users : OneLink(u)'
  <2> SUFFICES ASSUME NEW u \in Users
               PROVE  OneLink(u)'
    OBVIOUS
  <2>1. InvitationsOf(u)' = InvitationsOf(u)
    BY <1>1, <1>3, AdminIsNoUser DEF InvitationsOf, Made
  <2>2. UnrevokedOf(u)' = UnrevokedOf(u)
    BY <1>3, <2>1 DEF UnrevokedOf, InvitationsOf
  <2>3. OneLink(u) /\ (Alive(u)' <=> Alive(u))
    BY <1>2 DEF Inv, RowsAreInOrder, Alive
  <2>4. QED  BY <2>1, <2>2, <2>3 DEF OneLink
<1>7. InvitersExist'
  BY <1>1, <1>2, <1>3 DEF Inv, RowsAreInOrder, InvitersExist, Made
<1>8. ConfirmationsAreSpent' /\ ConfirmationsServeOnce'
  BY <1>2 DEF Inv, RowsAreInOrder, ConfirmationsAreSpent, ConfirmationsServeOnce
<1>9. RowsAreInOrder'
  BY <1>5, <1>6, <1>7, <1>8 DEF RowsAreInOrder
<1>10. \A j \in Invitations : Standing(j) => Standing(j)'
  BY <1>3, <1>5 DEF Standing
<1>11. QED  BY <1>2, <1>3, <1>4, <1>9, <1>10, StatementsKeepInv

LEMMA InvitationExpiresKeepsInv ==
    ASSUME Inv, NEW i \in Invitations, InvitationExpires(i)
    PROVE  Inv'
<1> DEFINE row == [invitations[i] EXCEPT !.expired = TRUE]
<1>1. Made(i) /\ invitations[i] \in InvitationRows
  BY RowsHaveTheirFields DEF Inv, InvitationExpires
<1>2. /\ row \in InvitationRows /\ row # NoRow
      /\ row.inviter = invitations[i].inviter /\ row.revoked = invitations[i].revoked
  BY <1>1, NoRowIsNoRow DEF InvitationRows
<1>3. /\ invitations' = [invitations EXCEPT ![i] = row]
      /\ invitations \in [Invitations -> InvitationRows \cup {NoRow}]
      /\ UNCHANGED <<users, redemptions, confirmations, userLock, invitationLock, req>>
  BY DEF InvitationExpires, Inv, TypeOK
<1> HIDE DEF row
<1>4. \A j \in Invitations :
          /\ Made(j)' <=> Made(j)
          /\ Made(j) => /\ invitations'[j].inviter = invitations[j].inviter
                        /\ invitations'[j].revoked = invitations[j].revoked
  BY <1>1, <1>2, <1>3 DEF Made
<1>5. TypeOK'
  BY <1>2, <1>3 DEF Inv, TypeOK
<1>6. /\ RedemptionsAreOfInvitations' /\ LimitsHold'
      /\ \A j \in Invitations : Made(j) => (HasRoom(j) <=> HasRoom(j)')
  BY <1>3, <1>4, RoomStays
<1>7. \A u \in Users : OneLink(u)'
  <2> SUFFICES ASSUME NEW u \in Users
               PROVE  OneLink(u)'
    OBVIOUS
  <2>1. InvitationsOf(u)' = InvitationsOf(u)
    BY <1>4 DEF InvitationsOf
  <2>2. UnrevokedOf(u)' = UnrevokedOf(u)
    BY <1>4, <2>1 DEF UnrevokedOf, InvitationsOf
  <2>3. OneLink(u) /\ (Alive(u)' <=> Alive(u))
    BY <1>3 DEF Inv, RowsAreInOrder, Alive
  <2>4. QED  BY <2>1, <2>2, <2>3 DEF OneLink
<1>8. InvitersExist'
  BY <1>3, <1>4 DEF Inv, RowsAreInOrder, InvitersExist
<1>9. ConfirmationsAreSpent' /\ ConfirmationsServeOnce'
  BY <1>3 DEF Inv, RowsAreInOrder, ConfirmationsAreSpent, ConfirmationsServeOnce
<1>10. RowsAreInOrder'
  BY <1>6, <1>7, <1>8, <1>9 DEF RowsAreInOrder
<1>11. \A j \in Invitations : Standing(j) => Standing(j)'
  BY <1>4, <1>6 DEF Standing
<1>12. QED  BY <1>3, <1>4, <1>5, <1>10, <1>11, StatementsKeepInv

\* After a renewal its user has one invitation that is not revoked.
LEMMA ReplacedRows ==
    ASSUME Inv, NEW u \in Users, NEW current \in InvitationsOf(u) \cup {NoRow}, Alive(u),
           invitations' \in CreateUnlessUnrevokedExists(RevokeCurrent(invitations, current), u)
    PROVE  /\ invitations' \in [Invitations -> InvitationRows \cup {NoRow}]
           /\ \A j \in Invitations :
                 /\ Made(j) => /\ Made(j)' /\ invitations'[j].inviter = invitations[j].inviter
                               /\ j # current => invitations'[j].revoked = invitations[j].revoked
                 /\ Made(j)' /\ ~Made(j) => invitations'[j].inviter = u
           /\ \E i \in Invitations : UnrevokedOf(u)' = {i}
<1> DEFINE rows == RevokeCurrent(invitations, current)
           exists == \E i \in Invitations : rows[i] # NoRow /\ rows[i].inviter = u /\ ~rows[i].revoked
<1>1. /\ invitations \in [Invitations -> InvitationRows \cup {NoRow}]
      /\ current # NoRow => current \in Invitations /\ Made(current) /\ invitations[current] \in InvitationRows
  BY NoRowIsApart, RowsHaveTheirFields DEF Inv, TypeOK, InvitationsOf
<1>2. rows \in [Invitations -> InvitationRows \cup {NoRow}]
  BY <1>1 DEF RevokeCurrent, InvitationRows
<1>3. \A j \in Invitations :
          /\ rows[j] = NoRow <=> ~Made(j)
          /\ Made(j) => /\ rows[j].inviter = invitations[j].inviter
                        /\ j # current => rows[j].revoked = invitations[j].revoked
                        /\ j = current => rows[j].revoked
  <2> SUFFICES ASSUME NEW j \in Invitations
               PROVE  /\ rows[j] = NoRow <=> ~Made(j)
                      /\ Made(j) => /\ rows[j].inviter = invitations[j].inviter
                                    /\ j # current => rows[j].revoked = invitations[j].revoked
                                    /\ j = current => rows[j].revoked
    OBVIOUS
  <2>1. CASE j # current
    <3>1. rows[j] = invitations[j]
      BY <1>1, <2>1 DEF RevokeCurrent
    <3>2. QED  BY <2>1, <3>1 DEF Made
  <2>2. CASE j = current
    <3>1. current # NoRow
      BY <2>2, NoRowIsApart
    <3>2. /\ rows[j] = [invitations[j] EXCEPT !.revoked = TRUE]
          /\ invitations[j] \in InvitationRows /\ Made(j)
      BY <1>1, <2>2, <3>1 DEF RevokeCurrent
    <3>3. /\ rows[j] \in InvitationRows /\ rows[j].inviter = invitations[j].inviter /\ rows[j].revoked
      BY <3>2 DEF InvitationRows
    <3>4. QED  BY <2>2, <3>2, <3>3, NoRowIsNoRow
  <2>3. QED  BY <2>1, <2>2
<1>4. invitations' \in IF exists THEN {rows}
                       ELSE {[rows EXCEPT ![i] = NewInvitation(u)] : i \in {j \in Invitations : rows[j] = NoRow}}
  BY DEF CreateUnlessUnrevokedExists
<1> HIDE DEF rows
<1>5. CASE exists
  <2>1. invitations' = rows
    BY <1>4, <1>5
  <2>2. \A j \in Invitations :
            /\ Made(j)' <=> Made(j)
            /\ Made(j) => /\ invitations'[j].inviter = invitations[j].inviter
                          /\ j # current => invitations'[j].revoked = invitations[j].revoked
                          /\ j = current => invitations'[j].revoked
    BY <1>3, <2>1 DEF Made
  <2>3. UnrevokedOf(u)' \subseteq UnrevokedOf(u) /\ UnrevokedOf(u)' # {}
    BY <1>5, <2>1, <2>2 DEF UnrevokedOf, InvitationsOf, Made
  <2>4. \E i \in Invitations : UnrevokedOf(u) = {i}
    BY <2>3 DEF Inv, RowsAreInOrder, OneLink, UnrevokedOf
  <2>5. \E i \in Invitations : UnrevokedOf(u)' = {i}
    BY <2>3, <2>4
  <2>6. QED  BY <1>2, <2>1, <2>2, <2>5
<1>6. CASE ~exists
  <2>1. PICK i \in Invitations : rows[i] = NoRow /\ invitations' = [rows EXCEPT ![i] = NewInvitation(u)]
    BY <1>4, <1>6
  <2>2. /\ NewInvitation(u) \in InvitationRows /\ NewInvitation(u) # NoRow
        /\ NewInvitation(u).inviter = u /\ ~NewInvitation(u).revoked
    BY NewInvitations
  <2>3. /\ invitations' \in [Invitations -> InvitationRows \cup {NoRow}]
        /\ invitations'[i] = NewInvitation(u) /\ ~Made(i)
        /\ \A j \in Invitations \ {i} : invitations'[j] = rows[j]
    BY <1>2, <1>3, <2>1, <2>2
  <2>4. \A j \in Invitations :
            /\ Made(j) => /\ Made(j)' /\ invitations'[j].inviter = invitations[j].inviter
                          /\ j # current => invitations'[j].revoked = invitations[j].revoked
            /\ Made(j)' /\ ~Made(j) => j = i
    BY <1>3, <2>3 DEF Made
  <2>5. UnrevokedOf(u)' = {i}
    BY <1>6, <2>2, <2>3 DEF UnrevokedOf, InvitationsOf, Made
  <2>6. QED  BY <2>2, <2>3, <2>4, <2>5
<1>7. QED  BY <1>5, <1>6

LEMMA ReplaceInvitationKeepsInv ==
    ASSUME Inv, NEW r \in Requests, ReplaceInvitation(r)
    PROVE  Inv'
<1>1. CASE Refuse(r)
  BY <1>1, RefuseKeepsInv
<1>2. CASE ~Refuse(r)
  <2>1. PICK u \in Users, current \in Invitations \cup {NoRow} :
            /\ current \in InvitationsOf(u) \cup {NoRow}
            /\ userLock[u] = r /\ Alive(u)
            /\ invitations' \in CreateUnlessUnrevokedExists(RevokeCurrent(invitations, current), u)
            /\ current # NoRow => invitationLock[current] = NoRequest
            /\ Return(r) /\ UNCHANGED <<users, redemptions, confirmations>>
    <3>1. /\ req[r].user \in Users /\ req[r].current \in InvitationsOf(req[r].user) \cup {NoRow}
          /\ userLock[req[r].user] = r /\ Alive(req[r].user)
      BY <1>2, RequestsHaveTheirFields DEF ReplaceInvitation, At, Inv, RequestsAreInOrder, InOrder
    <3>2. req[r].current # NoRow => invitationLock[req[r].current] = NoRequest
      BY <1>2, NobodyIsWaitedFor DEF ReplaceInvitation, At, Inv
    <3>3. QED  BY <1>2, <3>1, <3>2 DEF ReplaceInvitation, Replaced, InvitationsOf
  <2>2. /\ invitations' \in [Invitations -> InvitationRows \cup {NoRow}]
        /\ \A j \in Invitations :
              /\ Made(j) => /\ Made(j)' /\ invitations'[j].inviter = invitations[j].inviter
                            /\ j # current => invitations'[j].revoked = invitations[j].revoked
              /\ Made(j)' /\ ~Made(j) => invitations'[j].inviter = u
        /\ \E i \in Invitations : UnrevokedOf(u)' = {i}
    BY <2>1, ReplacedRows
  <2>3. TypeOK'
    BY <2>1, <2>2, FreedLocks DEF Inv, TypeOK
  <2>4. /\ RedemptionsAreOfInvitations' /\ LimitsHold'
        /\ \A j \in Invitations : Made(j) => (HasRoom(j) <=> HasRoom(j)')
    BY <2>1, <2>2, RoomStays
  <2>5. \A v \in Users : OneLink(v)'
    <3> SUFFICES ASSUME NEW v \in Users
                 PROVE  OneLink(v)'
      OBVIOUS
    <3>1. Alive(v)' <=> Alive(v)
      BY <2>1 DEF Alive
    <3>2. CASE v = u
      BY <2>1, <2>2, <3>1, <3>2 DEF OneLink
    <3>3. CASE v # u
      <4>1. InvitationsOf(v)' = InvitationsOf(v)
        BY <2>2, <3>3 DEF InvitationsOf
      <4>2. current \notin InvitationsOf(v)
        BY <2>1, <3>3, NoRowIsApart DEF InvitationsOf
      <4>3. UnrevokedOf(v)' = UnrevokedOf(v)
        BY <2>2, <4>1, <4>2 DEF UnrevokedOf, InvitationsOf
      <4>4. OneLink(v)
        BY DEF Inv, RowsAreInOrder
      <4>5. QED  BY <3>1, <4>1, <4>3, <4>4 DEF OneLink
    <3>4. QED  BY <3>2, <3>3
  <2>6. InvitersExist'
    <3>1. users[u] # NoRow /\ users' = users
      BY <2>1 DEF Alive
    <3>2. QED  BY <2>2, <3>1 DEF Inv, RowsAreInOrder, InvitersExist
  <2>7. ConfirmationsAreSpent' /\ ConfirmationsServeOnce'
    BY <2>1 DEF Inv, RowsAreInOrder, ConfirmationsAreSpent, ConfirmationsServeOnce
  <2>8. RowsAreInOrder'
    BY <2>4, <2>5, <2>6, <2>7 DEF RowsAreInOrder
  <2>9. ASSUME NEW q \in Requests \ {r}
        PROVE  /\ \A v \in Users : userLock[v] = q /\ Alive(v) => Alive(v)'
               /\ \A i \in Invitations : invitationLock[i] = q /\ Standing(i) => Standing(i)'
               /\ req[q].pc = "made" => users'[req[q].user] = NoRow
    <3>1. \A v \in Users : Alive(v) => Alive(v)'
      BY <2>1 DEF Alive
    <3>2. \A i \in Invitations : invitationLock[i] = q /\ Standing(i) => Standing(i)'
      BY <2>1, <2>2, <2>4, <2>9, NoRequestIsNoRequest, NoRowIsApart DEF Standing
    <3>3. req[q].pc = "made" => users'[req[q].user] = NoRow
      BY <2>1, <2>9 DEF Inv, RequestsAreInOrder, InOrder
    <3>4. QED  BY <3>1, <3>2, <3>3
  <2>10. QED  BY <2>1, <2>2, <2>3, <2>8, <2>9, ReturnsKeepInv
<1>3. QED  BY <1>1, <1>2

-----------------------------------------------------------------------------
(* Confirmations. *)

\* Only confirmations change, and none comes back.
LEMMA ConfirmationsOnly ==
    ASSUME Inv, UNCHANGED <<users, invitations, redemptions>>,
           \A c \in Confirmations : confirmations[c] = Deleted => confirmations'[c] = Deleted
    PROVE  /\ RowsAreInOrder'
           /\ \A u \in Users : Alive(u) => Alive(u)'
           /\ \A i \in Invitations : /\ Made(i) => Made(i)' /\ invitations'[i].inviter = invitations[i].inviter
                                     /\ Standing(i) => Standing(i)'
           /\ \A q \in Requests : req[q].pc = "made" => users'[req[q].user] = NoRow
<1>1. /\ InvitersExist' /\ RedemptionsAreOfInvitations' /\ LimitsHold' /\ ConfirmationsServeOnce'
      /\ \A u \in Users : OneLink(u)'
  BY DEF Inv, RowsAreInOrder, InvitersExist, RedemptionsAreOfInvitations, OneLink, ConfirmationsServeOnce,
     LimitsHold, Alive, Made, HasRoom, RedemptionsOf, InvitationsOf, UnrevokedOf
<1>2. ConfirmationsAreSpent'
  BY RowsHaveTheirFields DEF Inv, RowsAreInOrder, ConfirmationsAreSpent
<1>3. /\ \A u \in Users : Alive(u) => Alive(u)'
      /\ \A i \in Invitations : /\ Made(i) => Made(i)' /\ invitations'[i].inviter = invitations[i].inviter
                                /\ Standing(i) => Standing(i)'
  BY DEF Alive, Made, Standing, HasRoom, RedemptionsOf, InvitationsOf
<1>4. \A q \in Requests : req[q].pc = "made" => users'[req[q].user] = NoRow
  BY DEF Inv, RequestsAreInOrder, InOrder
<1>5. QED  BY <1>1, <1>2, <1>3, <1>4 DEF RowsAreInOrder

LEMMA NewConfirmations ==
    ASSUME NEW e \in Emails
    PROVE  NewConfirmation(e) \in ConfirmationRows
BY LimitsAreNumbers DEF NewConfirmation, ConfirmationRows

LEMMA CreateSignUpCommitKeepsInv ==
    ASSUME Inv, NEW r \in Requests, CreateSignUpCommit(r)
    PROVE  Inv'
<1>1. CASE Refuse(r)
  BY <1>1, RefuseKeepsInv
<1>2. CASE ~Refuse(r)
  <2>1. /\ Return(r) /\ UNCHANGED <<users, invitations, redemptions>>
        /\ req[r].pc = "signUp"
    BY <1>2 DEF CreateSignUpCommit, At
  <2>2. PICK c \in Confirmations :
            /\ confirmations[c] = NoRow
            /\ confirmations' = [confirmations EXCEPT ![c] = NewConfirmation(req[r].email)]
    BY <1>2 DEF CreateSignUpCommit
  <2>3. NewConfirmation(req[r].email) \in ConfirmationRows
    BY <2>1, RequestsHaveTheirFields, NewConfirmations DEF Inv
  <2>4. confirmations \in [Confirmations -> ConfirmationRows \cup {NoRow, Deleted}]
    BY DEF Inv, TypeOK
  <2>5. /\ confirmations' \in [Confirmations -> ConfirmationRows \cup {NoRow, Deleted}]
        /\ \A k \in Confirmations : confirmations[k] = Deleted => confirmations'[k] = Deleted
    BY <2>2, <2>3, <2>4, NoRowIsApart
  <2>6. TypeOK'
    BY <2>1, <2>5, FreedLocks DEF Inv, TypeOK
  <2>7. /\ RowsAreInOrder'
        /\ \A u \in Users : Alive(u) => Alive(u)'
        /\ \A i \in Invitations : /\ Made(i) => Made(i)' /\ invitations'[i].inviter = invitations[i].inviter
                                  /\ Standing(i) => Standing(i)'
        /\ \A q \in Requests : req[q].pc = "made" => users'[req[q].user] = NoRow
    BY <2>1, <2>5, ConfirmationsOnly
  <2>8. QED  BY <2>1, <2>6, <2>7, ReturnsKeepInv
<1>3. QED  BY <1>1, <1>2

\* Attempts, expiry and the periodic job.
LEMMA ConfirmationStatements ==
    ASSUME Inv, UNCHANGED <<users, invitations, redemptions, userLock, invitationLock, req>>,
           confirmations' \in [Confirmations -> ConfirmationRows \cup {NoRow, Deleted}],
           \A c \in Confirmations : confirmations[c] = Deleted => confirmations'[c] = Deleted
    PROVE  Inv'
<1>1. TypeOK'
  BY DEF Inv, TypeOK
<1>2. /\ RowsAreInOrder'
      /\ \A i \in Invitations : /\ Made(i) => Made(i)' /\ invitations'[i].inviter = invitations[i].inviter
                                /\ Standing(i) => Standing(i)'
  BY ConfirmationsOnly
<1>3. QED  BY <1>1, <1>2, StatementsKeepInv

LEMMA VerifyEmailConfirmationKeepsInv ==
    ASSUME Inv, NEW c \in Confirmations, NEW right \in BOOLEAN, VerifyEmailConfirmation(c, right)
    PROVE  Inv'
<1>1. /\ confirmations[c] \in ConfirmationRows /\ confirmations[c] # Deleted
      /\ confirmations \in [Confirmations -> ConfirmationRows \cup {NoRow, Deleted}]
  BY RowsHaveTheirFields DEF VerifyEmailConfirmation, Inv, TypeOK, Stored
<1>2. Verify(confirmations[c], right) \in ConfirmationRows
  <2>1. PICK row \in ConfirmationRows : row = confirmations[c]
    BY <1>1
  <2>2. row.failed \in 0..MaxFailedAttempts
    BY DEF ConfirmationRows
  <2>3. [row EXCEPT !.confirmed = TRUE] \in ConfirmationRows
    BY DEF ConfirmationRows
  <2>4. ASSUME ~(row.failed >= MaxFailedAttempts)
        PROVE  [row EXCEPT !.failed = @ + 1] \in ConfirmationRows
    <3>1. row.failed + 1 \in 0..MaxFailedAttempts
      BY <2>2, <2>4, LimitsAreNumbers
    <3>2. QED  BY <3>1 DEF ConfirmationRows
  <2>5. QED  BY <2>1, <2>3, <2>4 DEF Verify
<1>3. confirmations' = [confirmations EXCEPT ![c] = Verify(confirmations[c], right)]
  BY <1>1 DEF VerifyEmailConfirmation
<1>4. QED  BY <1>1, <1>2, <1>3, ConfirmationStatements DEF VerifyEmailConfirmation

LEMMA ConfirmationExpiresKeepsInv ==
    ASSUME Inv, NEW c \in Confirmations, ConfirmationExpires(c)
    PROVE  Inv'
<1>1. /\ confirmations[c] \in ConfirmationRows /\ confirmations[c] # Deleted
      /\ confirmations \in [Confirmations -> ConfirmationRows \cup {NoRow, Deleted}]
  BY RowsHaveTheirFields DEF ConfirmationExpires, Inv, TypeOK, Stored
<1>2. [confirmations[c] EXCEPT !.expired = TRUE] \in ConfirmationRows
  BY <1>1 DEF ConfirmationRows
<1>3. confirmations' = [confirmations EXCEPT ![c] = [confirmations[c] EXCEPT !.expired = TRUE]]
  BY <1>1 DEF ConfirmationExpires
<1>4. QED  BY <1>1, <1>2, <1>3, ConfirmationStatements DEF ConfirmationExpires

\* Rows that go away stay away.
LEMMA DeletedRows ==
    ASSUME TypeOK, NEW cs
    PROVE  /\ Without(cs) \in [Confirmations -> ConfirmationRows \cup {NoRow, Deleted}]
           /\ \A c \in Confirmations : confirmations[c] = Deleted \/ c \in cs => Without(cs)[c] = Deleted
BY DEF TypeOK, Without

LEMMA DeleteExpiredKeepsInv == Inv /\ DeleteExpiredEmailConfirmations => Inv'
BY DeletedRows, ConfirmationStatements DEF Inv, DeleteExpiredEmailConfirmations

-----------------------------------------------------------------------------
(* Accounts. *)

\* An inviter's standing invitation is the only one, and whose it is, is there.
LEMMA StandingIsTheOne ==
    ASSUME Inv, NEW i \in Invitations, Made(i), ~invitations[i].revoked, invitations[i].inviter # Admin
    PROVE  /\ invitations[i].inviter \in Users /\ Alive(invitations[i].inviter)
           /\ UnrevokedOf(invitations[i].inviter) = {i}
<1>1. invitations[i].inviter \in Users
  BY RowsHaveTheirFields DEF Inv
<1>2. PICK u \in Users : u = invitations[i].inviter
  BY <1>1
<1>3. i \in UnrevokedOf(u) /\ i \in InvitationsOf(u) /\ OneLink(u)
  BY <1>2 DEF UnrevokedOf, InvitationsOf, Inv, RowsAreInOrder
<1>4. QED  BY <1>2, <1>3 DEF OneLink

\* One more redemption, of an invitation that has room.
LEMMA OneMoreRedemption ==
    ASSUME Inv, NEW i \in Invitations, NEW u \in Users, Standing(i),
           redemptions' = redemptions \cup {[invitation |-> i, user |-> u]},
           invitations' = invitations
    PROVE  /\ RedemptionsAreOfInvitations' /\ LimitsHold'
           /\ \A j \in Invitations \ {i} : Standing(j) => Standing(j)'
<1> DEFINE new == [invitation |-> i, user |-> u]
           Of(v) == {d \in redemptions : d.invitation \in InvitationsOf(v)}
           By(j) == {d \in redemptions : d.invitation = j}
<1>1. /\ IsFiniteSet(redemptions) /\ \A d \in redemptions : Made(d.invitation)
      /\ LimitsHold /\ new.invitation = i
  BY DEF Inv, RowsAreInOrder, RedemptionsAreOfInvitations
<1>2. redemptions' = redemptions \cup {new} /\ IsFiniteSet(redemptions')
  BY <1>1, FS_AddElement
<1>3. RedemptionsAreOfInvitations'
  BY <1>1, <1>2 DEF RedemptionsAreOfInvitations, Standing, Made
<1>4. \A v : IsFiniteSet(Of(v)) /\ Cardinality(Of(v)) \in Nat /\ RedemptionsOf(v) = Cardinality(Of(v))
  <2> SUFFICES ASSUME NEW v
               PROVE  IsFiniteSet(Of(v)) /\ Cardinality(Of(v)) \in Nat /\ RedemptionsOf(v) = Cardinality(Of(v))
    OBVIOUS
  <2>1. Of(v) \in SUBSET redemptions
    OBVIOUS
  <2>2. IsFiniteSet(Of(v))
    BY <1>1, <2>1, FS_Subset
  <2>3. QED  BY <2>2, FS_CardinalityType DEF RedemptionsOf
<1>5. \A v : InvitationsOf(v)' = InvitationsOf(v)
  BY DEF InvitationsOf, Made
<1>6. ASSUME NEW v
      PROVE  RedemptionsOf(v)' = Cardinality(IF i \in InvitationsOf(v) THEN Of(v) \cup {new} ELSE Of(v))
  <2>1. {d \in redemptions : d.invitation \in InvitationsOf(v)}'
        = IF i \in InvitationsOf(v) THEN Of(v) \cup {new} ELSE Of(v)
    BY <1>1, <1>2, <1>5
  <2>2. QED  BY <2>1 DEF RedemptionsOf
<1>7. ASSUME NEW v
      PROVE  RedemptionsOf(v)' <= RedemptionsOf(v) + IF i \in InvitationsOf(v) THEN 1 ELSE 0
  <2>1. CASE i \in InvitationsOf(v)
    <3>1. RedemptionsOf(v)' = Cardinality(Of(v) \cup {new}) /\ RedemptionsOf(v) = Cardinality(Of(v))
      BY <1>4, <1>6, <2>1
    <3> HIDE DEF Of, new
    <3>2. Cardinality(Of(v) \cup {new}) = IF new \in Of(v) THEN Cardinality(Of(v)) ELSE Cardinality(Of(v)) + 1
      BY <1>4, FS_AddElement
    <3>3. Cardinality(Of(v)) \in Nat
      BY <1>4
    <3>4. QED  BY <2>1, <3>1, <3>2, <3>3
  <2>2. CASE i \notin InvitationsOf(v)
    <3>1. RedemptionsOf(v)' = Cardinality(Of(v)) /\ RedemptionsOf(v) = Cardinality(Of(v)) /\ Cardinality(Of(v)) \in Nat
      BY <1>4, <1>6, <2>2
    <3>2. QED  BY <2>2, <3>1
  <2>3. QED  BY <2>1, <2>2
<1>8. ASSUME NEW v \in Users
      PROVE  RedemptionsOf(v)' <= RedemptionLimit
  <2>1. RedemptionsOf(v) \in Nat /\ RedemptionsOf(v)' \in Nat
    <3>1. RedemptionsOf(v) \in Nat
      BY <1>4
    <3>2. IsFiniteSet(Of(v) \cup {new})
      BY <1>4, FS_AddElement
    <3>3. Cardinality(Of(v) \cup {new}) \in Nat
      BY <3>2, FS_CardinalityType
    <3>4. Cardinality(Of(v)) \in Nat
      BY <1>4
    <3>5. RedemptionsOf(v)' \in Nat
      BY <1>6, <3>3, <3>4
    <3>6. QED  BY <3>1, <3>5
  <2>2. CASE i \in InvitationsOf(v)
    <3>1. RedemptionsOf(v) < RedemptionLimit
      BY <2>2, AdminIsNoUser DEF Standing, HasRoom, InvitationsOf
    <3>2. RedemptionsOf(v)' <= RedemptionsOf(v) + 1
      BY <1>7, <2>2
    <3>3. QED  BY <2>1, <3>1, <3>2, LimitsAreNumbers
  <2>3. CASE i \notin InvitationsOf(v)
    <3>1. RedemptionsOf(v) <= RedemptionLimit
      BY <1>1 DEF LimitsHold
    <3>2. RedemptionsOf(v)' <= RedemptionsOf(v) + 0
      BY <1>7, <2>3
    <3>3. QED  BY <2>1, <3>1, <3>2, LimitsAreNumbers
  <2>4. QED  BY <2>2, <2>3
<1>9. ASSUME NEW j \in Invitations, Made(j), invitations[j].inviter = Admin
      PROVE  Cardinality({d \in redemptions : d.invitation = j}') <= 1
  <2>1. CASE j = i
    <3>1. {d \in redemptions : d.invitation = j}' = {new}
      BY <1>1, <1>2, <1>9, <2>1 DEF Standing, HasRoom
    <3>2. Cardinality({d \in redemptions : d.invitation = j}') = 1
      BY <3>1, FS_Singleton
    <3>3. QED  BY <3>2
  <2>2. CASE j # i
    <3>1. {d \in redemptions : d.invitation = j}' = {d \in redemptions : d.invitation = j}
      BY <1>1, <1>2, <2>2
    <3>2. QED  BY <1>1, <1>9, <3>1 DEF LimitsHold
  <2>3. QED  BY <2>1, <2>2
<1>10. LimitsHold'
  BY <1>8, <1>9 DEF LimitsHold, Made
<1>11. ASSUME NEW j \in Invitations \ {i}, Standing(j)
       PROVE  HasRoom(j)'
  <2>1. CASE invitations[j].inviter = Admin
    BY <1>1, <1>2, <1>11, <2>1 DEF Standing, HasRoom
  <2>2. CASE invitations[j].inviter # Admin
    <3>1. PICK v \in Users : v = invitations[j].inviter
      BY <1>11, <2>2, StandingIsTheOne DEF Standing
    <3>2. i \notin InvitationsOf(v)
      <4>1. UnrevokedOf(v) = {j}
        BY <1>11, <2>2, <3>1, StandingIsTheOne DEF Standing
      <4>2. QED  BY <1>11, <4>1 DEF UnrevokedOf, InvitationsOf, Standing
    <3>3. RedemptionsOf(v)' = RedemptionsOf(v)
      BY <1>4, <1>6, <3>2
    <3>4. RedemptionsOf(v) < RedemptionLimit
      BY <1>11, <2>2, <3>1 DEF Standing, HasRoom
    <3>5. QED  BY <2>2, <3>1, <3>3, <3>4 DEF HasRoom
  <2>3. QED  BY <2>1, <2>2
<1>12. \A j \in Invitations \ {i} : Standing(j) => Standing(j)'
  BY <1>11 DEF Standing, Made
<1>13. QED  BY <1>3, <1>10, <1>12

LEMMA CreateAccountCommitKeepsInv ==
    ASSUME Inv, NEW r \in Requests, CreateAccountCommit(r)
    PROVE  Inv'
<1>1. CASE Refuse(r)
  BY <1>1, RefuseKeepsInv
<1>2. CASE ~Refuse(r)
  <2>1. PICK i \in Invitations, u \in Users, k \in Confirmations, e \in Emails :
            /\ req[r].pc = "made" /\ req[r].user = u
            /\ invitationLock[i] = r /\ Standing(i) /\ users[u] = NoRow /\ Confirmed(k)
            /\ users' = [users EXCEPT ![u] = [email |-> e, alive |-> TRUE, by |-> k]]
            /\ redemptions' = redemptions \cup {[invitation |-> i, user |-> u]}
            /\ confirmations' = Without({k})
            /\ Return(r) /\ invitations' = invitations
    <3>1. /\ req[r].pc = "made" /\ req[r].invitation \in Invitations /\ req[r].user \in Users
          /\ req[r].confirmation \in Confirmations /\ req[r].email \in Emails
      BY RequestsHaveTheirFields DEF CreateAccountCommit, At, Inv
    <3>2. /\ invitationLock[req[r].invitation] = r /\ Standing(req[r].invitation) /\ users[req[r].user] = NoRow
      BY <3>1 DEF Inv, RequestsAreInOrder, InOrder, Standing
    <3>3. QED  BY <1>2, <3>1, <3>2 DEF CreateAccountCommit, DeletesConfirmed
  <2> DEFINE row == [email |-> e, alive |-> TRUE, by |-> k]
  <2>2. row \in UserRows /\ row.alive /\ row.by = k
    BY DEF UserRows
  <2>3. row # NoRow
    BY <2>2, NoRowIsNoRow
  <2>4. users' = [users EXCEPT ![u] = row] /\ users \in [Users -> UserRows \cup {NoRow}]
    BY <2>1 DEF Inv, TypeOK
  <2> HIDE DEF row
  <2>5. /\ users' \in [Users -> UserRows \cup {NoRow}] /\ users'[u] = row
        /\ \A v \in Users \ {u} : users'[v] = users[v]
    BY <2>2, <2>4
  <2>6. /\ confirmations' \in [Confirmations -> ConfirmationRows \cup {NoRow, Deleted}]
        /\ confirmations'[k] = Deleted
        /\ \A c \in Confirmations : confirmations[c] = Deleted => confirmations'[c] = Deleted
    BY <2>1, DeletedRows DEF Inv
  <2>7. redemptions' \subseteq [invitation: Invitations, user: Users]
    BY <2>1 DEF Inv, TypeOK
  <2>8. TypeOK'
    BY <2>1, <2>5, <2>6, <2>7, FreedLocks DEF Inv, TypeOK
  <2>9. /\ RedemptionsAreOfInvitations' /\ LimitsHold'
        /\ \A j \in Invitations \ {i} : Standing(j) => Standing(j)'
    BY <2>1, OneMoreRedemption
  <2>10. \A v \in Users : Alive(v) => Alive(v)'
    BY <2>2, <2>3, <2>5 DEF Alive
  <2>11. InvitersExist'
    BY <2>1, <2>3, <2>5, RowsHaveTheirFields DEF Inv, RowsAreInOrder, InvitersExist, Made
  <2>12. \A v \in Users : OneLink(v)'
    <3> SUFFICES ASSUME NEW v \in Users
                 PROVE  OneLink(v)'
      OBVIOUS
    <3>1. InvitationsOf(v)' = InvitationsOf(v) /\ UnrevokedOf(v)' = UnrevokedOf(v)
      BY <2>1 DEF InvitationsOf, UnrevokedOf, Made
    <3>2. CASE v = u
      <4>1. InvitationsOf(u) = {}
        BY <2>1, AdminIsNoUser DEF InvitationsOf, Inv, RowsAreInOrder, InvitersExist
      <4>2. QED  BY <3>1, <3>2, <4>1 DEF OneLink, UnrevokedOf
    <3>3. CASE v # u
      BY <2>5, <3>1, <3>3 DEF Inv, RowsAreInOrder, OneLink, Alive
    <3>4. QED  BY <3>2, <3>3
  <2>13. confirmations[k] # Deleted
    BY <2>1 DEF Confirmed, Stored
  <2>14. ConfirmationsAreSpent'
    BY <2>2, <2>5, <2>6, RowsHaveTheirFields DEF Inv, RowsAreInOrder, ConfirmationsAreSpent
  <2>15. ConfirmationsServeOnce'
    <3>1. \A v \in Users : users[v] # NoRow /\ users[v].by # NoRow => users[v].by # k
      BY <2>13 DEF Inv, RowsAreInOrder, ConfirmationsAreSpent
    <3>2. k # NoRow
      BY NoRowIsApart
    <3>3. ASSUME NEW v \in Users, NEW w \in Users, v # w, users'[v] # NoRow, users'[w] # NoRow, users'[v].by # NoRow
          PROVE  users'[v].by # users'[w].by
      <4>1. CASE v = u
        <5>1. users'[v].by = k /\ users'[w] = users[w]
          BY <2>2, <2>5, <3>3, <4>1
        <5>2. QED  BY <3>1, <3>2, <3>3, <5>1
      <4>2. CASE w = u
        <5>1. users'[w].by = k /\ users'[v] = users[v]
          BY <2>2, <2>5, <3>3, <4>2
        <5>2. QED  BY <3>1, <3>3, <5>1
      <4>3. CASE v # u /\ w # u
        BY <2>5, <3>3, <4>3 DEF Inv, RowsAreInOrder, ConfirmationsServeOnce
      <4>4. QED  BY <4>1, <4>2, <4>3
    <3>4. QED  BY <3>3 DEF ConfirmationsServeOnce
  <2>16. RowsAreInOrder'
    BY <2>9, <2>11, <2>12, <2>14, <2>15 DEF RowsAreInOrder
  <2>17. ASSUME NEW q \in Requests \ {r}
         PROVE  /\ \A j \in Invitations : invitationLock[j] = q /\ Standing(j) => Standing(j)'
                /\ req[q].pc = "made" => users'[req[q].user] = NoRow
    <3>1. \A j \in Invitations : invitationLock[j] = q => j # i
      BY <2>1, <2>17
    <3>2. ASSUME req[q].pc = "made"
          PROVE  users'[req[q].user] = NoRow
      <4>1. req[q].user \in Users /\ users[req[q].user] = NoRow
        BY <3>2, RequestsHaveTheirFields DEF Inv, RequestsAreInOrder, InOrder
      <4>2. req[q].user # u
        BY <2>1, <3>2, <2>17 DEF Inv, IdsAreTakenOnce
      <4>3. QED  BY <2>5, <4>1, <4>2
    <3>3. QED  BY <2>9, <3>1, <3>2
  <2>18. \A j \in Invitations : Made(j) => Made(j)' /\ invitations'[j].inviter = invitations[j].inviter
    BY <2>1 DEF Made
  <2>19. QED  BY <2>1, <2>8, <2>10, <2>16, <2>17, <2>18, ReturnsKeepInv
<1>3. QED  BY <1>1, <1>2

LEMMA DeleteAccountCommitKeepsInv ==
    ASSUME Inv, NEW r \in Requests, DeleteAccountCommit(r)
    PROVE  Inv'
<1>1. PICK u \in Users, found \in SUBSET Confirmations :
          /\ userLock[u] = r /\ Alive(u)
          /\ \A i \in UnrevokedOf(u) : invitationLock[i] = NoRequest
          /\ users' = [users EXCEPT ![u].alive = FALSE]
          /\ confirmations' = Without(found)
          /\ invitations' = [i \in Invitations |-> IF i \in UnrevokedOf(u)
                                                   THEN [invitations[i] EXCEPT !.revoked = TRUE]
                                                   ELSE invitations[i]]
          /\ Return(r) /\ redemptions' = redemptions
  <2>1. /\ req[r].pc = "erased" /\ req[r].user \in Users /\ req[r].found \in SUBSET Confirmations
    BY RequestsHaveTheirFields DEF DeleteAccountCommit, At, Inv
  <2>2. userLock[req[r].user] = r /\ Alive(req[r].user)
    BY <2>1 DEF Inv, RequestsAreInOrder, InOrder
  <2>3. \A i \in UnrevokedOf(req[r].user) : invitationLock[i] = NoRequest
    BY <2>1, NobodyIsWaitedFor DEF DeleteAccountCommit, At, Inv
  <2>4. QED  BY <2>1, <2>2, <2>3 DEF DeleteAccountCommit
<1> DEFINE row == [users[u] EXCEPT !.alive = FALSE]
<1>2. users[u] \in UserRows /\ users \in [Users -> UserRows \cup {NoRow}]
  BY <1>1 DEF Inv, TypeOK, Alive
<1>3. row \in UserRows /\ ~row.alive /\ row.by = users[u].by
  BY <1>2 DEF UserRows
<1>4. row # NoRow /\ users[u] # NoRow
  BY <1>2, <1>3, NoRowIsNoRow
<1>5. users' = [users EXCEPT ![u] = row]
  BY <1>1, <1>2
<1> HIDE DEF row
<1>6. /\ users' \in [Users -> UserRows \cup {NoRow}] /\ users'[u] = row
      /\ \A v \in Users \ {u} : users'[v] = users[v]
      /\ \A v \in Users : /\ users'[v] = NoRow <=> users[v] = NoRow
                          /\ users'[v].by = users[v].by
  BY <1>2, <1>3, <1>4, <1>5
<1>7. \A i \in Invitations :
          /\ invitations'[i] \in InvitationRows \cup {NoRow}
          /\ Made(i)' <=> Made(i)
          /\ Made(i) => /\ invitations'[i].inviter = invitations[i].inviter
                        /\ invitations'[i].revoked <=> invitations[i].revoked \/ i \in UnrevokedOf(u)
  <2> SUFFICES ASSUME NEW i \in Invitations
               PROVE  /\ invitations'[i] \in InvitationRows \cup {NoRow}
                      /\ Made(i)' <=> Made(i)
                      /\ Made(i) => /\ invitations'[i].inviter = invitations[i].inviter
                                    /\ invitations'[i].revoked <=> invitations[i].revoked \/ i \in UnrevokedOf(u)
    OBVIOUS
  <2>1. CASE i \in UnrevokedOf(u)
    <3>1. Made(i) /\ invitations[i] \in InvitationRows
      BY <2>1, RowsHaveTheirFields DEF Inv, UnrevokedOf, InvitationsOf
    <3>2. invitations'[i] = [invitations[i] EXCEPT !.revoked = TRUE]
      BY <1>1, <2>1
    <3>3. /\ invitations'[i] \in InvitationRows /\ invitations'[i].inviter = invitations[i].inviter
          /\ invitations'[i].revoked
      BY <3>1, <3>2 DEF InvitationRows
    <3>4. invitations'[i] # NoRow
      BY <3>3, NoRowIsNoRow
    <3>5. QED  BY <2>1, <3>1, <3>3, <3>4 DEF Made
  <2>2. CASE i \notin UnrevokedOf(u)
    <3>1. invitations'[i] = invitations[i]
      BY <1>1, <2>2
    <3>2. invitations[i] \in InvitationRows \cup {NoRow}
      BY DEF Inv, TypeOK
    <3>3. QED  BY <2>2, <3>1, <3>2 DEF Made
  <2>3. QED  BY <2>1, <2>2
<1>8. invitations' \in [Invitations -> InvitationRows \cup {NoRow}]
  BY <1>1, <1>7
<1>9. /\ confirmations' \in [Confirmations -> ConfirmationRows \cup {NoRow, Deleted}]
      /\ \A c \in Confirmations : confirmations[c] = Deleted => confirmations'[c] = Deleted
  BY <1>1, DeletedRows DEF Inv
<1>10. TypeOK'
  BY <1>1, <1>6, <1>8, <1>9, FreedLocks DEF Inv, TypeOK
<1>11. /\ RedemptionsAreOfInvitations' /\ LimitsHold'
       /\ \A i \in Invitations : Made(i) => (HasRoom(i) <=> HasRoom(i)')
  BY <1>1, <1>7, RoomStays
<1>12. InvitersExist'
  BY <1>6, <1>7, RowsHaveTheirFields DEF Inv, RowsAreInOrder, InvitersExist
<1>13. \A v \in Users : OneLink(v)'
  <2> SUFFICES ASSUME NEW v \in Users
               PROVE  OneLink(v)'
    OBVIOUS
  <2>1. InvitationsOf(v)' = InvitationsOf(v)
    BY <1>7 DEF InvitationsOf
  <2>2. UnrevokedOf(v)' = UnrevokedOf(v) \ UnrevokedOf(u)
    BY <1>7, <2>1 DEF UnrevokedOf, InvitationsOf
  <2>3. CASE v = u
    BY <1>3, <1>6, <2>2, <2>3 DEF OneLink, Alive
  <2>4. CASE v # u
    <3>1. UnrevokedOf(v)' = UnrevokedOf(v)
      BY <2>2, <2>4 DEF UnrevokedOf, InvitationsOf
    <3>2. Alive(v)' <=> Alive(v)
      BY <1>6, <2>4 DEF Alive
    <3>3. QED  BY <2>1, <3>1, <3>2 DEF Inv, RowsAreInOrder, OneLink
  <2>5. QED  BY <2>3, <2>4
<1>14. ConfirmationsAreSpent'
  BY <1>6, <1>9, RowsHaveTheirFields DEF Inv, RowsAreInOrder, ConfirmationsAreSpent
<1>15. ConfirmationsServeOnce'
  BY <1>6 DEF Inv, RowsAreInOrder, ConfirmationsServeOnce
<1>16. RowsAreInOrder'
  BY <1>11, <1>12, <1>13, <1>14, <1>15 DEF RowsAreInOrder
<1>17. ASSUME NEW q \in Requests \ {r}
       PROVE  /\ \A v \in Users : userLock[v] = q /\ Alive(v) => Alive(v)'
              /\ \A i \in Invitations : invitationLock[i] = q /\ Standing(i) => Standing(i)'
              /\ req[q].pc = "made" => users'[req[q].user] = NoRow
  <2>1. \A v \in Users : userLock[v] = q /\ Alive(v) => Alive(v)'
    BY <1>1, <1>6, <1>17 DEF Alive
  <2>2. \A i \in Invitations : invitationLock[i] = q => i \notin UnrevokedOf(u)
    BY <1>1, <1>17, NoRequestIsNoRequest
  <2>3. \A i \in Invitations : invitationLock[i] = q /\ Standing(i) => Standing(i)'
    BY <1>7, <1>11, <2>2 DEF Standing
  <2>4. req[q].pc = "made" => req[q].user \in Users /\ users[req[q].user] = NoRow
    BY <1>17, RequestsHaveTheirFields DEF Inv, RequestsAreInOrder, InOrder
  <2>5. QED  BY <1>6, <2>1, <2>3, <2>4
<1>18. QED  BY <1>1, <1>7, <1>10, <1>16, <1>17, ReturnsKeepInv

LEMMA WithdrawUserKeepsInv ==
    ASSUME Inv, NEW r \in Requests, WithdrawUser(r)
    PROVE  Inv'
<1>1. CASE Refuse(r)
  BY <1>1, RefuseKeepsInv
<1>2. CASE ~Refuse(r)
  <2>0. PICK u : u = req[r].user
    OBVIOUS
  <2> DEFINE state == [req[r] EXCEPT !.pc = "withdrawn"]
  <2>1. /\ req[r].pc = "delete" /\ Alive(u) /\ userLock[u] = NoRequest
        /\ req' = [req EXCEPT ![r] = state] /\ userLock' = [userLock EXCEPT ![u] = r]
        /\ UNCHANGED <<database, invitationLock>>
    BY <1>2, <2>0, NobodyIsWaitedFor DEF WithdrawUser, At, Inv, TypeOK
  <2>2. req[r] \in [pc: {"delete", "withdrawn"}, user: Users]
    BY <2>1 DEF Inv, TypeOK, RequestStates, Idle
  <2>3. state \in RequestStates /\ state.pc = "withdrawn" /\ state.user = u /\ u \in Users
    BY <2>0, <2>2 DEF RequestStates
  <2> HIDE DEF state
  <2>4. /\ userLock' \in [Users -> Requests \cup {NoRequest}] /\ userLock'[u] = r
        /\ invitationLock' \in [Invitations -> Requests \cup {NoRequest}]
        /\ \A v \in Users : userLock[v] \notin {NoRequest, r} => userLock'[v] = userLock[v]
    BY <2>1, <2>3 DEF Inv, TypeOK
  <2>5. \A s : s = state => InOrder(r, s)'
    BY <2>1, <2>3, <2>4, SameRows DEF InOrder
  <2>6. QED  BY <2>1, <2>3, <2>4, <2>5, MovesKeepInv
<1>3. QED  BY <1>1, <1>2

LEMMA DeleteByEmailKeepsInv ==
    ASSUME Inv, NEW r \in Requests, DeleteByEmail(r)
    PROVE  Inv'
<1>1. PICK u \in Users, found \in SUBSET Confirmations :
          /\ userLock[u] = r /\ Alive(u)
          /\ req' = [req EXCEPT ![r] = [pc |-> "erased", user |-> u, found |-> found]]
          /\ UNCHANGED <<database, userLock, invitationLock>>
  <2>1. req[r].pc = "withdrawn" /\ req[r].user \in Users
    BY RequestsHaveTheirFields DEF DeleteByEmail, At, Inv
  <2>2. userLock[req[r].user] = r /\ Alive(req[r].user)
    BY <2>1 DEF Inv, RequestsAreInOrder, InOrder
  <2>3. \E found \in SUBSET Confirmations :
            req' = [req EXCEPT ![r] = [pc |-> "erased", user |-> req[r].user, found |-> found]]
    BY DEF DeleteByEmail, Inv, TypeOK
  <2>4. QED  BY <2>1, <2>2, <2>3 DEF DeleteByEmail
<1> DEFINE state == [pc |-> "erased", user |-> u, found |-> found]
<1>2. state \in RequestStates /\ state.pc = "erased" /\ state.user = u
  BY DEF RequestStates
<1> HIDE DEF state
<1>3. \A s : s = state => InOrder(r, s)'
  BY <1>1, <1>2, SameRows DEF InOrder
<1>4. /\ userLock' \in [Users -> Requests \cup {NoRequest}] /\ userLock' = userLock
      /\ invitationLock' \in [Invitations -> Requests \cup {NoRequest}] /\ invitationLock' = invitationLock
  BY <1>1 DEF Inv, TypeOK
<1>5. QED  BY <1>1, <1>2, <1>3, <1>4, MovesKeepInv DEF state

-----------------------------------------------------------------------------
(* The theorems. *)

LEMMA NextKeepsInv == Inv /\ [Next]_vars => Inv'
<1> SUFFICES ASSUME Inv, [Next]_vars
             PROVE  Inv'
  OBVIOUS
<1>1. ASSUME NEW r \in Requests, BeginRequest(r)
      PROVE  Inv'
  BY <1>1, PrepareInvitationKeepsInv, RecreateInvitationKeepsInv, DeleteAccountBeginKeepsInv,
     CreateSignUpBeginKeepsInv, CreateAccountBeginKeepsInv DEF BeginRequest
<1>2. ASSUME NEW r \in Requests, Continue(r)
      PROVE  Inv'
  BY <1>2, LockInviterKeepsInv, ReplaceInvitationKeepsInv, CreateSignUpCommitKeepsInv,
     CreateAccountLockKeepsInv, CreateAccountInsertKeepsInv, CreateAccountCommitKeepsInv,
     WithdrawUserKeepsInv, DeleteByEmailKeepsInv, DeleteAccountCommitKeepsInv DEF Continue
<1>3. ASSUME NEW r \in Requests, Abort(r)
      PROVE  Inv'
  BY <1>3, RefuseKeepsInv DEF Abort
<1>4. ASSUME NEW i \in Invitations, CreateInvitation(i) \/ InvitationExpires(i)
      PROVE  Inv'
  BY <1>4, CreateInvitationKeepsInv, InvitationExpiresKeepsInv
<1>5. ASSUME NEW c \in Confirmations,
             (\E right \in BOOLEAN : VerifyEmailConfirmation(c, right)) \/ ConfirmationExpires(c)
      PROVE  Inv'
  BY <1>5, VerifyEmailConfirmationKeepsInv, ConfirmationExpiresKeepsInv
<1>6. CASE UNCHANGED vars
  <2>1. UNCHANGED <<users, invitations, redemptions, userLock, invitationLock, req>> /\ confirmations' = confirmations
    BY <1>6 DEF vars, database
  <2>2. confirmations \in [Confirmations -> ConfirmationRows \cup {NoRow, Deleted}]
    BY DEF Inv, TypeOK
  <2>3. QED  BY <2>1, <2>2, ConfirmationStatements
<1>7. QED  BY <1>1, <1>2, <1>3, <1>4, <1>5, <1>6, DeleteExpiredKeepsInv DEF Next

\* The invariant holds: who registers holds an invitation that stands and has
\* room, who renews or deletes holds a user who is there.
THEOREM InvHolds == Spec => []Inv
<1>1. Init => Inv
  BY InitHasInv
<1>2. Inv /\ [Next]_vars => Inv'
  BY NextKeepsInv
<1>3. QED  BY <1>1, <1>2, PTL DEF Spec

\* The variables keep their types; no more wrong codes are counted than are
\* allowed.
THEOREM TypesHold == Spec => []TypeOK
<1>1. Inv => TypeOK
  BY DEF Inv
<1>2. QED  BY <1>1, InvHolds, PTL

\* The invitations of one inviter admit no more than the limit, those of the
\* CLI one each.
THEOREM InvitationsAreLimited == Spec => []LimitsHold
<1>1. Inv => LimitsHold
  BY DEF Inv, RowsAreInOrder
<1>2. QED  BY <1>1, InvHolds, PTL

\* Who has an invitation keeps exactly one link; who has left has none.
THEOREM OneLinkEach == Spec => []InvitersKeepOneLink
<1>1. ASSUME Inv, NEW u \in Users
      PROVE  IF Alive(u)
             THEN InvitationsOf(u) # {} => Cardinality(UnrevokedOf(u)) = 1
             ELSE UnrevokedOf(u) = {}
  <2>1. OneLink(u)
    BY <1>1 DEF Inv, RowsAreInOrder
  <2>2. ASSUME NEW i \in Invitations, UnrevokedOf(u) = {i}
        PROVE  Cardinality(UnrevokedOf(u)) = 1
    BY <2>2, FS_Singleton
  <2>3. QED  BY <2>1, <2>2 DEF OneLink
<1>2. Inv => InvitersKeepOneLink
  BY <1>1 DEF InvitersKeepOneLink
<1>3. QED  BY <1>2, InvHolds, PTL

\* A confirmed address makes one account.
THEOREM OneAccountEach == Spec => []ConfirmationsServeOnce
<1>1. Inv => ConfirmationsServeOnce
  BY DEF Inv, RowsAreInOrder
<1>2. QED  BY <1>1, InvHolds, PTL

\* Whoever registers does so by an invitation that stands at that instant, of
\* an inviter who is there.
THEOREM OnlyStandingInvitationsAdmit == Spec => StandingInvitationsAdmit
<1>1. ASSUME Inv, NEW r \in Requests, CreateAccountCommit(r), NEW d \in redemptions' \ redemptions
      PROVE  /\ ~invitations[d.invitation].revoked
             /\ invitations[d.invitation].inviter # Admin => Alive(invitations[d.invitation].inviter)
  <2>1. /\ req[r].pc = "made" /\ req[r].invitation \in Invitations
        /\ Made(req[r].invitation) /\ ~invitations[req[r].invitation].revoked
    BY <1>1, RequestsHaveTheirFields DEF CreateAccountCommit, At, Inv, RequestsAreInOrder, InOrder
  <2>2. d.invitation = req[r].invitation
    BY <1>1 DEF CreateAccountCommit, Refuse, database
  <2>3. QED  BY <1>1, <2>1, <2>2, StandingIsTheOne
<1>2. ASSUME Inv, [Next]_vars, NEW d \in redemptions' \ redemptions
      PROVE  /\ ~invitations[d.invitation].revoked
             /\ invitations[d.invitation].inviter # Admin => Alive(invitations[d.invitation].inviter)
  <2>1. redemptions' # redemptions
    BY <1>2
  <2>2. \E r \in Requests : CreateAccountCommit(r)
    BY <1>2, <2>1
    DEF Next, BeginRequest, Continue, Abort, vars, database, Begin, Refuse,
        PrepareInvitation, RecreateInvitation, DeleteAccountBegin, CreateSignUpBegin, CreateAccountBegin,
        LockInviter, ReplaceInvitation, CreateSignUpCommit, CreateAccountLock, CreateAccountInsert,
        WithdrawUser, DeleteByEmail, DeleteAccountCommit, CreateInvitation, InvitationExpires,
        VerifyEmailConfirmation, ConfirmationExpires, DeleteExpiredEmailConfirmations
  <2>3. QED  BY <1>1, <1>2, <2>2
<1>3. Inv /\ [Next]_vars => [\A d \in redemptions' \ redemptions :
          /\ ~invitations[d.invitation].revoked
          /\ invitations[d.invitation].inviter # Admin => Alive(invitations[d.invitation].inviter)]_vars
  BY <1>2
<1>4. QED  BY <1>3, InvHolds, PTL DEF Spec, StandingInvitationsAdmit

-----------------------------------------------------------------------------
(* Who waits for whom. *)

Registering == {"account", "insert", "made"}

RegistrantsAreInvited ==
    \A r \in Requests : req[r].pc \in Registering => Made(req[r].invitation)

\* Users can be numbered, in the order in which they registered, so that
\* whoever has the address of a registration under way is younger than its
\* inviter: it found the address free when it began.
AgesFit(age, last) ==
    /\ \A u \in Users : users[u] # NoRow => age[u] <= last
    /\ \A r \in Requests, v \in Users :
          req[r].pc \in Registering /\ Alive(v) /\ users[v].email = req[r].email
              /\ invitations[req[r].invitation].inviter # Admin
          => age[invitations[req[r].invitation].inviter] < age[v]

AddressesAreTakenByTheYounger == \E age \in [Users -> Nat], last \in Nat : AgesFit(age, last)

LocksHaveHolders ==
    \A r \in Requests :
        /\ \A u \in Users : userLock[u] = r => req[r].pc \in {"replace", "withdrawn", "erased"}
        /\ \A i \in Invitations : invitationLock[i] = r =>
              req[r].pc \in {"insert", "made"} /\ req[r].invitation = i

WaitInv == RegistrantsAreInvited /\ AddressesAreTakenByTheYounger /\ LocksHaveHolders

LEMMA BoundedNumbersHaveMaxima ==
    ASSUME NEW S \in SUBSET Nat, S # {}, NEW last \in Nat, \A x \in S : x <= last
    PROVE  \E x \in S : \A y \in S : y <= x
<1> DEFINE Rest == {last - x : x \in S}
<1>0. \A x \in S : x \in Nat /\ x <= last /\ last - x \in Nat
  OBVIOUS
<1>1. Rest \subseteq Nat /\ Rest # {}
  BY <1>0
<1>2. PICK n \in Rest : \A k \in Rest : ~(<<k, n>> \in OpToRel(<, Nat))
  <2> HIDE DEF Rest
  <2>1. QED  BY <1>1, NatLessThanWellFounded, WFMin
<1>3. PICK x \in S : n = last - x
  OBVIOUS
<1>4. ASSUME NEW y \in S, ~(y <= x)
      PROVE  FALSE
  <2>1. x \in Nat /\ y \in Nat /\ last - y \in Nat /\ n \in Nat
    BY <1>0, <1>3
  <2>2. last - y < n
    BY <1>3, <1>4, <2>1
  <2>3. last - y \in Rest /\ <<last - y, n>> \in OpToRel(<, Nat)
    BY <2>1, <2>2 DEF OpToRel
  <2>4. QED  BY <1>2, <2>3
<1>5. \A y \in S : y <= x
  BY <1>4
<1>6. QED  BY <1>5

\* Of the deletions in a circle, take that of the youngest user: it waits for
\* a registration that this user invited, which waits for the address of a
\* user who is younger still.
LEMMA NobodyWaitsInCircles == Inv /\ WaitInv => NoCircleOfWaits
<1> SUFFICES ASSUME Inv, WaitInv, NEW circle \in SUBSET Requests, circle # {},
                    \A r \in circle : Blockers(r) \cap circle # {}
             PROVE  FALSE
  BY DEF NoCircleOfWaits
<1> DEFINE Erasing == {r \in circle : req[r].pc = "erased"}
<1>1. \A r \in circle : r \in Requests /\ req[r].pc \notin {"idle", "made", "withdrawn"}
  BY DEF Blockers
<1>2. ASSUME NEW r \in circle, req[r].pc = "insert"
      PROVE  \E q \in Erasing : users[req[q].user].email = req[r].email
  <2>1. PICK q \in circle : q \in HoldersOf(req[r].email)
    BY <1>2 DEF Blockers, InsertWaitsFor
  <2>2. QED  BY <1>1, <2>1 DEF HoldersOf
<1>3. ASSUME NEW i \in Invitations, NEW q \in circle, invitationLock[i] = q
      PROVE  req[q].pc = "insert" /\ req[q].invitation = i
  BY <1>1, <1>3 DEF WaitInv, LocksHaveHolders
<1>4. Erasing # {}
  <2>1. PICK r \in circle : TRUE
    OBVIOUS
  <2>2. CASE req[r].pc = "erased"
    BY <2>2
  <2>3. CASE req[r].pc = "insert"
    BY <1>2, <2>3
  <2>4. CASE req[r].pc = "replace"
    <3>1. PICK i \in Invitations : invitationLock[i] \in circle
      BY <2>4, RequestsHaveTheirFields DEF Blockers, Inv
    <3>2. QED  BY <1>2, <1>3, <3>1
  <2>5. CASE req[r].pc \in {"signUp", "account"}
    <3>1. PICK i \in Invitations : invitationLock[i] \in circle
      BY <2>5, RequestsHaveTheirFields DEF Blockers, Inv
    <3>2. QED  BY <1>2, <1>3, <3>1
  <2>6. CASE req[r].pc \in {"renew", "delete"}
    <3>1. PICK q \in circle : userLock[req[r].user] = q
      BY <2>6 DEF Blockers
    <3>2. req[r].user \in Users
      BY <2>6, RequestsHaveTheirFields DEF Inv
    <3>3. req[q].pc \in {"replace", "erased"}
      BY <1>1, <3>1, <3>2 DEF WaitInv, LocksHaveHolders
    <3>4. CASE req[q].pc = "replace"
      <4>1. PICK i \in Invitations : invitationLock[i] \in circle
        BY <3>4, RequestsHaveTheirFields DEF Blockers, Inv
      <4>2. QED  BY <1>2, <1>3, <4>1
    <3>5. QED  BY <3>3, <3>4
  <2>7. QED  BY <1>1, <2>2, <2>3, <2>4, <2>5, <2>6 DEF Inv, TypeOK, RequestStates, Idle
<1>5. PICK age \in [Users -> Nat], last \in Nat : AgesFit(age, last)
  BY DEF WaitInv, AddressesAreTakenByTheYounger
<1>6. \A q \in Erasing : req[q].user \in Users /\ Alive(req[q].user)
  BY <1>1, RequestsHaveTheirFields DEF Inv, RequestsAreInOrder, InOrder
<1> DEFINE Ages == {age[req[q].user] : q \in Erasing}
<1>7. PICK q \in Erasing : \A p \in Erasing : age[req[p].user] <= age[req[q].user]
  <2>1. Ages \in SUBSET Nat /\ Ages # {}
    BY <1>4, <1>6
  <2>2. \A x \in Ages : x <= last
    BY <1>5, <1>6 DEF AgesFit, Alive
  <2>3. PICK x \in Ages : \A y \in Ages : y <= x
    <3> HIDE DEF Ages
    <3>1. QED  BY <2>1, <2>2, BoundedNumbersHaveMaxima
  <2>4. QED  BY <2>3
<1>8. PICK i \in UnrevokedOf(req[q].user) : invitationLock[i] \in circle
  BY DEF Blockers
<1>9. i \in Invitations /\ Made(i) /\ invitations[i].inviter = req[q].user
  BY <1>8 DEF UnrevokedOf, InvitationsOf
<1>10. PICK r \in circle : invitationLock[i] = r /\ req[r].pc = "insert" /\ req[r].invitation = i
  BY <1>3, <1>8, <1>9
<1>11. PICK p \in Erasing : users[req[p].user].email = req[r].email
  BY <1>2, <1>10
<1>12. age[req[q].user] < age[req[p].user]
  BY <1>5, <1>6, <1>9, <1>10, <1>11, AdminIsNoUser DEF AgesFit, Registering
<1>13. age[req[q].user] \in Nat /\ age[req[p].user] \in Nat /\ age[req[p].user] <= age[req[q].user]
  BY <1>6, <1>7
<1>14. QED  BY <1>12, <1>13

\* Nobody registers in the step; registrations go on or begin with an address
\* that nobody has.
LEMMA RegistrationsGoOn ==
    ASSUME Inv, WaitInv,
           \A u \in Users : users'[u] # NoRow => users[u] # NoRow,
           \A v \in Users : Alive(v)' => Alive(v) /\ users'[v].email = users[v].email,
           \A i \in Invitations : Made(i) => Made(i)' /\ invitations'[i].inviter = invitations[i].inviter,
           \A q \in Requests : req'[q].pc \in Registering =>
               \/ /\ req[q].pc \in Registering
                  /\ req'[q].invitation = req[q].invitation /\ req'[q].email = req[q].email
               \/ /\ req'[q].invitation \in Invitations /\ Made(req'[q].invitation)
                  /\ ~Registered(req'[q].email)
    PROVE  RegistrantsAreInvited' /\ AddressesAreTakenByTheYounger'
<1>1. ASSUME NEW q \in Requests, req'[q].pc \in Registering
      PROVE  /\ req'[q].invitation \in Invitations /\ Made(req'[q].invitation)
             /\ invitations'[req'[q].invitation] # NoRow
             /\ invitations'[req'[q].invitation].inviter = invitations[req'[q].invitation].inviter
  <2>1. req'[q].invitation \in Invitations /\ Made(req'[q].invitation)
    BY <1>1, RequestsHaveTheirFields DEF Inv, WaitInv, RegistrantsAreInvited, Registering
  <2>2. QED  BY <2>1 DEF Made
<1>2. RegistrantsAreInvited'
  BY <1>1 DEF RegistrantsAreInvited, Made
<1>3. PICK age \in [Users -> Nat], last \in Nat : AgesFit(age, last)
  BY DEF WaitInv, AddressesAreTakenByTheYounger
<1>4. ASSUME NEW q \in Requests, NEW v \in Users,
             req'[q].pc \in Registering, Alive(v)', users'[v].email = req'[q].email,
             invitations'[req'[q].invitation].inviter # Admin
      PROVE  age[invitations'[req'[q].invitation].inviter] < age[v]
  <2>1. Alive(v) /\ users[v].email = req'[q].email
    BY <1>4
  <2>2. req[q].pc \in Registering /\ req'[q].invitation = req[q].invitation /\ req'[q].email = req[q].email
    BY <1>4, <2>1 DEF Registered
  <2>3. QED  BY <1>1, <1>3, <1>4, <2>1, <2>2 DEF AgesFit
<1>5. AgesFit(age, last)'
  BY <1>3, <1>4 DEF AgesFit
<1>6. QED  BY <1>2, <1>5 DEF AddressesAreTakenByTheYounger

\* The user who registers is the youngest.
LEMMA TheNewestIsTheYoungest ==
    ASSUME Inv, WaitInv, NEW r \in Requests, CreateAccountCommit(r), ~Refuse(r)
    PROVE  RegistrantsAreInvited' /\ AddressesAreTakenByTheYounger'
<1>1. PICK u \in Users :
          /\ users[u] = NoRow /\ \E row : users' = [users EXCEPT ![u] = row]
          /\ Return(r) /\ invitations' = invitations
  <2>1. req[r].user \in Users /\ users[req[r].user] = NoRow
    BY RequestsHaveTheirFields DEF CreateAccountCommit, At, Inv, RequestsAreInOrder, InOrder
  <2>2. QED  BY <2>1 DEF CreateAccountCommit
<1>2. \A q \in Requests : req'[q] = IF q = r THEN Idle ELSE req[q]
  BY <1>1 DEF Inv, TypeOK, Return
<1>3. \A v \in Users : v # u => users'[v] = users[v]
  BY <1>1 DEF Inv, TypeOK
<1>4. \A q \in Requests : req'[q].pc \in Registering =>
          q # r /\ req[q].pc \in Registering /\ req'[q] = req[q]
  BY <1>2 DEF Idle, Registering
<1>5. RegistrantsAreInvited'
  BY <1>1, <1>4 DEF WaitInv, RegistrantsAreInvited, Made
<1>6. PICK age \in [Users -> Nat], last \in Nat : AgesFit(age, last)
  BY DEF WaitInv, AddressesAreTakenByTheYounger
<1> DEFINE older == [age EXCEPT ![u] = last + 1]
<1>7. /\ older \in [Users -> Nat] /\ last + 1 \in Nat /\ older[u] = last + 1
      /\ \A v \in Users : v # u => older[v] = age[v]
  OBVIOUS
<1> HIDE DEF older
<1>8. \A v \in Users : users'[v] # NoRow => older[v] <= last + 1
  <2> SUFFICES ASSUME NEW v \in Users, users'[v] # NoRow, v # u
               PROVE  older[v] <= last + 1
    BY <1>7
  <2>1. age[v] \in Nat /\ age[v] <= last
    BY <1>3, <1>6 DEF AgesFit
  <2>2. QED  BY <1>7, <2>1
<1>9. ASSUME NEW q \in Requests, NEW v \in Users,
             req'[q].pc \in Registering, Alive(v)', users'[v].email = req'[q].email,
             invitations'[req'[q].invitation].inviter # Admin
      PROVE  older[invitations'[req'[q].invitation].inviter] < older[v]
  <2>1. req[q].pc \in Registering /\ req'[q] = req[q] /\ req[q].invitation \in Invitations
    BY <1>4, <1>9, RequestsHaveTheirFields DEF Inv, Registering
  <2>2. PICK inviter \in Users : inviter = invitations[req[q].invitation].inviter
    BY <1>1, <1>9, <2>1, RowsHaveTheirFields DEF Inv, WaitInv, RegistrantsAreInvited
  <2>3. users[inviter] # NoRow /\ inviter # u
    BY <1>1, <1>9, <2>1, <2>2 DEF Inv, RowsAreInOrder, InvitersExist, WaitInv, RegistrantsAreInvited
  <2>4. age[inviter] \in Nat /\ age[inviter] <= last /\ older[inviter] = age[inviter]
    BY <1>6, <1>7, <2>3 DEF AgesFit
  <2>5. CASE v = u
    BY <1>1, <1>7, <2>1, <2>2, <2>4, <2>5
  <2>6. CASE v # u
    <3>1. Alive(v) /\ users[v].email = req[q].email /\ older[v] = age[v]
      BY <1>3, <1>7, <1>9, <2>1, <2>6 DEF Alive
    <3>2. age[inviter] < age[v]
      BY <1>1, <1>6, <1>9, <2>1, <2>2, <3>1 DEF AgesFit
    <3>3. QED  BY <1>1, <2>1, <2>2, <2>4, <3>1, <3>2
  <2>7. QED  BY <2>5, <2>6
<1>10. AgesFit(older, last + 1)'
  BY <1>8, <1>9 DEF AgesFit
<1>11. QED  BY <1>5, <1>7, <1>10 DEF AddressesAreTakenByTheYounger

LEMMA ReturnsFreeTheLocks ==
    ASSUME Inv, WaitInv, NEW r \in Requests, Return(r)
    PROVE  /\ LocksHaveHolders'
           /\ \A q \in Requests : req'[q].pc \in Registering =>
                 req[q].pc \in Registering /\ req'[q] = req[q]
<1>1. \A q \in Requests : req'[q] = IF q = r THEN Idle ELSE req[q]
  BY DEF Inv, TypeOK, Return
<1>2. \A q \in Requests, u \in Users : userLock'[u] = q => q # r /\ userLock[u] = q
  BY NoRequestIsNoRequest DEF Return
<1>3. \A q \in Requests, i \in Invitations : invitationLock'[i] = q => q # r /\ invitationLock[i] = q
  BY NoRequestIsNoRequest DEF Return
<1>4. LocksHaveHolders'
  BY <1>1, <1>2, <1>3 DEF WaitInv, LocksHaveHolders
<1>5. QED  BY <1>1, <1>4 DEF Idle, Registering

LEMMA ReturnsKeepWaitInv ==
    ASSUME Inv, WaitInv, NEW r \in Requests, Return(r),
           \A u \in Users : users'[u] # NoRow => users[u] # NoRow,
           \A v \in Users : Alive(v)' => Alive(v) /\ users'[v].email = users[v].email,
           \A i \in Invitations : Made(i) => Made(i)' /\ invitations'[i].inviter = invitations[i].inviter
    PROVE  WaitInv'
BY ReturnsFreeTheLocks, RegistrationsGoOn DEF WaitInv

LEMMA RefuseKeepsWaitInv ==
    ASSUME Inv, WaitInv, NEW r \in Requests, Refuse(r)
    PROVE  WaitInv'
<1>1. /\ \A v \in Users : Alive(v)' => Alive(v)
      /\ \A i \in Invitations : Made(i) => Made(i)'
  BY DEF Refuse, database, Alive, Made
<1>2. QED  BY <1>1, ReturnsKeepWaitInv DEF Refuse, database

\* A request goes on; no row changes.
LEMMA MovesKeepWaitInv ==
    ASSUME Inv, WaitInv, NEW r \in Requests, NEW state,
           req' = [req EXCEPT ![r] = state], UNCHANGED database,
           \/ state.pc \notin Registering
           \/ /\ req[r].pc \in Registering
              /\ state.invitation = req[r].invitation /\ state.email = req[r].email
           \/ state.invitation \in Invitations /\ Made(state.invitation) /\ ~Registered(state.email),
           LocksHaveHolders'
    PROVE  WaitInv'
<1>1. \A q \in Requests : req'[q] = IF q = r THEN state ELSE req[q]
  BY DEF Inv, TypeOK
<1>2. /\ \A v \in Users : Alive(v)' => Alive(v)
      /\ \A i \in Invitations : Made(i) => Made(i)'
  BY DEF database, Alive, Made
<1>3. QED  BY <1>1, <1>2, RegistrationsGoOn DEF WaitInv, database

LEMMA BeginKeepsWaitInv ==
    ASSUME Inv, WaitInv, NEW r \in Requests, BeginRequest(r)
    PROVE  WaitInv'
<1>1. ASSUME NEW state, Begin(r, state)
      PROVE  LocksHaveHolders'
  <2>1. \A q \in Requests : q # r => req'[q] = req[q]
    BY <1>1 DEF Begin, Inv, TypeOK
  <2>2. (\A u \in Users : userLock[u] # r) /\ (\A i \in Invitations : invitationLock[i] # r)
    BY <1>1 DEF Begin, Idle, WaitInv, LocksHaveHolders
  <2>3. QED  BY <1>1, <2>1, <2>2 DEF Begin, WaitInv, LocksHaveHolders
<1>2. ASSUME NEW state, Begin(r, state), state.pc \notin Registering
      PROVE  WaitInv'
  BY <1>1, <1>2, MovesKeepWaitInv DEF Begin
<1>3. ASSUME NEW u \in Users, PrepareInvitation(r, u)
      PROVE  WaitInv'
  BY <1>2, <1>3 DEF PrepareInvitation, Registering
<1>4. ASSUME NEW u \in Users, NEW i \in Invitations, RecreateInvitation(r, u, i)
      PROVE  WaitInv'
  BY <1>2, <1>4 DEF RecreateInvitation, Registering
<1>5. ASSUME NEW u \in Users, DeleteAccountBegin(r, u)
      PROVE  WaitInv'
  BY <1>2, <1>5 DEF DeleteAccountBegin, Registering
<1>6. ASSUME NEW i \in Invitations, NEW e \in Emails, CreateSignUpBegin(r, i, e)
      PROVE  WaitInv'
  BY <1>2, <1>6 DEF CreateSignUpBegin, Registering
<1>7. ASSUME NEW i \in Invitations, NEW c \in Confirmations, CreateAccountBegin(r, c, i)
      PROVE  WaitInv'
  <2>1. PICK state : state = [pc |-> "account", invitation |-> i, confirmation |-> c, email |-> confirmations[c].email]
    OBVIOUS
  <2>2. state.invitation = i /\ state.email = confirmations[c].email
    BY <2>1
  <2>3. Begin(r, state) /\ Made(i) /\ ~Registered(confirmations[c].email)
    BY <1>7, <2>1 DEF CreateAccountBegin, IsUsable
  <2>4. QED  BY <1>1, <2>2, <2>3, MovesKeepWaitInv DEF Begin
<1>8. QED  BY <1>3, <1>4, <1>5, <1>6, <1>7 DEF BeginRequest

LEMMA ContinueKeepsWaitInv ==
    ASSUME Inv, WaitInv, NEW r \in Requests, Continue(r)
    PROVE  WaitInv'
<1>1. CASE Refuse(r)
  BY <1>1, RefuseKeepsWaitInv
<1> DEFINE Moves(state) == req' = [req EXCEPT ![r] = state] /\ UNCHANGED database
<1>2. ASSUME NEW state, Moves(state)
      PROVE  \A q \in Requests : req'[q] = IF q = r THEN state ELSE req[q]
  BY <1>2 DEF Inv, TypeOK
<1>3. CASE LockInviter(r) /\ ~Refuse(r)
  <2>1. req[r].pc = "renew" /\ req[r].user \in Users
    BY <1>3, RequestsHaveTheirFields DEF LockInviter, At, Inv
  <2>2. PICK state : state = [req[r] EXCEPT !.pc = "replace"]
    OBVIOUS
  <2>3. state.pc = "replace"
    BY <2>1, <2>2 DEF Inv, TypeOK, RequestStates, Idle
  <2>4. /\ Moves(state) /\ userLock' = [userLock EXCEPT ![req[r].user] = r]
        /\ invitationLock' = invitationLock
    BY <1>3, <2>2 DEF LockInviter
  <2>5. LocksHaveHolders'
    BY <1>2, <2>1, <2>3, <2>4 DEF Inv, TypeOK, WaitInv, LocksHaveHolders
  <2>6. QED  BY <2>3, <2>4, <2>5, MovesKeepWaitInv DEF Registering
<1>4. CASE CreateAccountLock(r) /\ ~Refuse(r)
  <2>1. req[r].pc = "account" /\ req[r].invitation \in Invitations
    BY <1>4, RequestsHaveTheirFields DEF CreateAccountLock, At, Inv
  <2>2. PICK state : state = [req[r] EXCEPT !.pc = "insert"]
    OBVIOUS
  <2>3. state.pc = "insert" /\ state.invitation = req[r].invitation /\ state.email = req[r].email
    BY <2>1, <2>2 DEF Inv, TypeOK, RequestStates, Idle
  <2>4. /\ Moves(state) /\ invitationLock' = [invitationLock EXCEPT ![req[r].invitation] = r]
        /\ userLock' = userLock
    BY <1>4, <2>2 DEF CreateAccountLock
  <2>5. LocksHaveHolders'
    BY <1>2, <2>1, <2>3, <2>4 DEF Inv, TypeOK, WaitInv, LocksHaveHolders
  <2>6. QED  BY <2>1, <2>3, <2>4, <2>5, MovesKeepWaitInv DEF Registering
<1>5. CASE CreateAccountInsert(r) /\ ~Refuse(r)
  <2>1. req[r].pc = "insert"
    BY <1>5 DEF CreateAccountInsert, At
  <2>2. PICK u \in Users :
            /\ Moves([pc |-> "made", invitation |-> req[r].invitation, confirmation |-> req[r].confirmation,
                      email |-> req[r].email, user |-> u])
            /\ UNCHANGED <<userLock, invitationLock>>
    BY <1>5 DEF CreateAccountInsert
  <2>3. PICK state : state = [pc |-> "made", invitation |-> req[r].invitation, confirmation |-> req[r].confirmation,
                              email |-> req[r].email, user |-> u]
    OBVIOUS
  <2>4. state.pc = "made" /\ state.invitation = req[r].invitation /\ state.email = req[r].email
    BY <2>3
  <2>5. Moves(state)
    BY <2>2, <2>3
  <2>6. LocksHaveHolders'
    BY <1>2, <2>1, <2>2, <2>4, <2>5 DEF WaitInv, LocksHaveHolders
  <2>7. QED  BY <2>1, <2>4, <2>5, <2>6, MovesKeepWaitInv DEF Registering
<1>6. CASE WithdrawUser(r) /\ ~Refuse(r)
  <2>1. req[r].pc = "delete" /\ req[r].user \in Users
    BY <1>6, RequestsHaveTheirFields DEF WithdrawUser, At, Inv
  <2>2. PICK state : state = [req[r] EXCEPT !.pc = "withdrawn"]
    OBVIOUS
  <2>3. state.pc = "withdrawn"
    BY <2>1, <2>2 DEF Inv, TypeOK, RequestStates, Idle
  <2>4. /\ Moves(state) /\ userLock' = [userLock EXCEPT ![req[r].user] = r]
        /\ invitationLock' = invitationLock
    BY <1>6, <2>2 DEF WithdrawUser
  <2>5. LocksHaveHolders'
    BY <1>2, <2>1, <2>3, <2>4 DEF Inv, TypeOK, WaitInv, LocksHaveHolders
  <2>6. QED  BY <2>3, <2>4, <2>5, MovesKeepWaitInv DEF Registering
<1>7. CASE DeleteByEmail(r)
  <2>1. req[r].pc = "withdrawn"
    BY <1>7 DEF DeleteByEmail, At
  <2>2. PICK found : /\ Moves([pc |-> "erased", user |-> req[r].user, found |-> found])
                     /\ UNCHANGED <<userLock, invitationLock>>
    BY <1>7 DEF DeleteByEmail
  <2>3. PICK state : state = [pc |-> "erased", user |-> req[r].user, found |-> found]
    OBVIOUS
  <2>4. state.pc = "erased"
    BY <2>3
  <2>5. Moves(state)
    BY <2>2, <2>3
  <2>6. LocksHaveHolders'
    BY <1>2, <2>1, <2>2, <2>4, <2>5 DEF WaitInv, LocksHaveHolders
  <2>7. QED  BY <2>4, <2>5, <2>6, MovesKeepWaitInv DEF Registering
<1>8. CASE CreateSignUpCommit(r) /\ ~Refuse(r)
  BY <1>8, ReturnsKeepWaitInv DEF CreateSignUpCommit, Alive, Made
<1>9. CASE CreateAccountCommit(r) /\ ~Refuse(r)
  <2>1. Return(r)
    BY <1>9 DEF CreateAccountCommit
  <2>2. QED  BY <1>9, <2>1, TheNewestIsTheYoungest, ReturnsFreeTheLocks DEF WaitInv
<1>10. CASE ReplaceInvitation(r) /\ ~Refuse(r)
  <2>1. /\ req[r].user \in Users /\ Alive(req[r].user)
        /\ req[r].current \in InvitationsOf(req[r].user) \cup {NoRow}
    BY <1>10, RequestsHaveTheirFields DEF ReplaceInvitation, At, Inv, RequestsAreInOrder, InOrder
  <2>2. \A i \in Invitations : Made(i) => Made(i)' /\ invitations'[i].inviter = invitations[i].inviter
    BY <1>10, <2>1, ReplacedRows DEF ReplaceInvitation, Replaced
  <2>3. QED  BY <1>10, <2>2, ReturnsKeepWaitInv DEF ReplaceInvitation, Alive
<1>11. CASE DeleteAccountCommit(r)
  <2>1. req[r].user \in Users /\ Alive(req[r].user)
    BY <1>11, RequestsHaveTheirFields DEF DeleteAccountCommit, At, Inv, RequestsAreInOrder, InOrder
  <2>2. PICK u \in Users :
            /\ users[u] \in UserRows /\ users' = [users EXCEPT ![u] = [users[u] EXCEPT !.alive = FALSE]]
            /\ users[u] # NoRow
    BY <1>11, <2>1, RowsHaveTheirFields DEF DeleteAccountCommit, Inv, Alive
  <2>3. \A v \in Users : Alive(v)' => v # u /\ users'[v] = users[v]
    BY <2>2 DEF Alive, UserRows, Inv, TypeOK
  <2>4. \A i \in Invitations : Made(i) => Made(i)' /\ invitations'[i].inviter = invitations[i].inviter
    <3> SUFFICES ASSUME NEW i \in Invitations, Made(i), invitations'[i] # invitations[i]
                 PROVE  invitations'[i] # NoRow /\ invitations'[i].inviter = invitations[i].inviter
      BY DEF Made
    <3>1. invitations'[i] = [invitations[i] EXCEPT !.revoked = TRUE] /\ invitations[i] \in InvitationRows
      BY <1>11, RowsHaveTheirFields DEF DeleteAccountCommit, Inv
    <3>2. invitations'[i] \in InvitationRows /\ invitations'[i].inviter = invitations[i].inviter
      BY <3>1 DEF InvitationRows
    <3>3. QED  BY <3>2, NoRowIsNoRow
  <2>5. \A v \in Users : Alive(v)' => Alive(v) /\ users'[v].email = users[v].email
    BY <2>3 DEF Alive
  <2>6. \A v \in Users : users'[v] # NoRow => users[v] # NoRow
    BY <2>2 DEF Inv, TypeOK
  <2>7. QED  BY <1>11, <2>4, <2>5, <2>6, ReturnsKeepWaitInv DEF DeleteAccountCommit
<1>12. QED  BY <1>1, <1>3, <1>4, <1>5, <1>6, <1>7, <1>8, <1>9, <1>10, <1>11 DEF Continue

LEMMA NextKeepsWaitInv == Inv /\ WaitInv /\ [Next]_vars => WaitInv'
<1> SUFFICES ASSUME Inv, WaitInv, [Next]_vars
             PROVE  WaitInv'
  OBVIOUS
<1>1. ASSUME UNCHANGED <<users, userLock, invitationLock, req>>,
             \A i \in Invitations : Made(i) => Made(i)' /\ invitations'[i].inviter = invitations[i].inviter
      PROVE  WaitInv'
  <2>1. \A v \in Users : Alive(v)' => Alive(v)
    BY <1>1 DEF Alive
  <2>2. LocksHaveHolders'
    BY <1>1 DEF WaitInv, LocksHaveHolders
  <2>3. QED  BY <1>1, <2>1, <2>2, RegistrationsGoOn DEF WaitInv
<1>2. ASSUME NEW i \in Invitations, CreateInvitation(i)
      PROVE  WaitInv'
  BY <1>1, <1>2 DEF CreateInvitation, Made, Inv, TypeOK
<1>3. ASSUME NEW i \in Invitations, InvitationExpires(i)
      PROVE  WaitInv'
  <2>1. invitations[i] \in InvitationRows
    BY <1>3, RowsHaveTheirFields DEF Inv, InvitationExpires
  <2>2. /\ invitations'[i] = [invitations[i] EXCEPT !.expired = TRUE]
        /\ \A j \in Invitations : j # i => invitations'[j] = invitations[j]
    BY <1>3 DEF InvitationExpires, Inv, TypeOK
  <2>3. invitations'[i] \in InvitationRows /\ invitations'[i].inviter = invitations[i].inviter
    BY <2>1, <2>2 DEF InvitationRows
  <2>4. \A j \in Invitations : Made(j) => Made(j)' /\ invitations'[j].inviter = invitations[j].inviter
    BY <2>2, <2>3, NoRowIsNoRow DEF Made
  <2>5. QED  BY <1>1, <1>3, <2>4 DEF InvitationExpires
<1>4. CASE UNCHANGED <<users, invitations, userLock, invitationLock, req>>
  BY <1>1, <1>4 DEF Made
<1>5. ASSUME NEW r \in Requests, BeginRequest(r) \/ Continue(r) \/ Abort(r)
      PROVE  WaitInv'
  BY <1>5, BeginKeepsWaitInv, ContinueKeepsWaitInv, RefuseKeepsWaitInv DEF Abort
<1>6. QED  BY <1>2, <1>3, <1>4, <1>5 DEF Next, VerifyEmailConfirmation, ConfirmationExpires,
                                        DeleteExpiredEmailConfirmations, vars, database

\* Renewals, registrations and deletions never wait in a circle, over the
\* rows of users and invitations and the unique address, however many run.
THEOREM WaitsEnd == Spec => []NoCircleOfWaits
<1>1. Init => WaitInv
  <2> SUFFICES ASSUME Init PROVE WaitInv
    OBVIOUS
  <2>1. \A r \in Requests : req[r] = Idle /\ Idle.pc = "idle"
    BY DEF Init, Idle
  <2>2. RegistrantsAreInvited /\ LocksHaveHolders
    BY <2>1, NoRequestIsNoRequest DEF Init, RegistrantsAreInvited, Registering, LocksHaveHolders
  <2>3. AgesFit([u \in Users |-> 0], 0)
    BY <2>1 DEF AgesFit, Registering
  <2>4. AddressesAreTakenByTheYounger
    BY <2>3 DEF AddressesAreTakenByTheYounger
  <2>5. QED  BY <2>2, <2>4 DEF WaitInv
<1>2. Inv /\ WaitInv => NoCircleOfWaits
  BY NobodyWaitsInCircles
<1>3. QED  BY <1>1, <1>2, NextKeepsWaitInv, InvHolds, PTL DEF Spec

=============================================================================
