---------------------------- MODULE TradeLifecycle ----------------------------
(***************************************************************************)
(* A trade from its proposal to its end, as the use cases of               *)
(* go/internal/usecase move it while requests run concurrently.            *)
(*                                                                         *)
(* A handler reads the trade and, when it records words of its user, the   *)
(* user's consent BEFORE it opens its transaction; the transaction repeats *)
(* the stage condition only.  Proposing, withdrawing consent and deleting  *)
(* an account lock rows of users first.  Every statement or group of       *)
(* statements that another request can come in between is a step of its    *)
(* own here: Begin (read and early returns), CheckConsent, the locks, the  *)
(* check under the lock, and the commit.                                   *)
(*                                                                         *)
(* A transaction that starts with a conditional UPDATE of the trade holds  *)
(* that row until it commits and decides nothing after it, so update,      *)
(* event, note and commit are one step.  The rows of items these handlers  *)
(* also touch are the subject of module TradedItems.                       *)
(***************************************************************************)
EXTENDS TradeRow, Naturals, Sequences

CONSTANTS
    Trades,         \* ids of the trades that may be created
    Requests,       \* requests in flight
    NoTrade,        \* "no such row"
    NoRequest,      \* "nobody holds the lock"
    Notes,          \* the choices of adding a note or not that are explored
    MaxMessages,    \* bound: a user who has said as much in a trade begins no message
    MaxConsents     \* bound: a user with as many rows of consents agrees no more

ASSUME NotesAreChoices == Notes \subseteq BOOLEAN
ASSUME UsersAreOrdered == Users \subseteq Nat
ASSUME NoTradeIsNoRow == NoTrade \notin TradeRows /\ NoTrade \notin Trades
ASSUME NoRequestIsNoRequest == NoRequest \notin Requests

VARIABLES
    alive,      \* users: deleted_at IS NULL
    consents,   \* message_consents of each user, oldest first: is it withdrawn?
    trades,     \* trades
    events,     \* trade_events of each trade, in the order of their commits
    messages,   \* trade_messages: how many each user has sent in each trade
    userLock,   \* the request that holds the row of users FOR NO KEY UPDATE
    req         \* where each request stands

database == <<alive, consents, trades, events, messages>>
vars == <<database, userLock, req>>

TradeOps == {"approve", "decline", "withdraw", "cancel", "fail", "complete", "message"}
UserOps == {"revoke", "leave", "agree"}
EventKinds == {"proposed", "approved", "declined", "withdrawn", "cancelled", "failed", "completed"}

\* "with": the partner a proposal names; otherwise the user.
Idle == [pc |-> "idle"]
TradeRequests == [pc: {"consent", "write"}, op: TradeOps, user: Users, trade: Trades, note: BOOLEAN]
Proposals == [pc: {"lock1", "lock2", "consent", "write"}, op: {"propose"}, user: Users, with: Users, note: BOOLEAN]
UserRequests == [pc: {"lock1", "check", "write"}, op: UserOps, user: Users]
RequestStates == {Idle} \cup TradeRequests \cup Proposals \cup UserRequests

-----------------------------------------------------------------------------
(* What the statements read. *)

Row(t) == trades[t]
Exists(t) == trades[t] # NoTrade

\* FindLatestByUserID and IsValid: the newest consent is there and stands.
\* There is one version of the text, so a row's version never decides.
ConsentValid(u) == consents[u] # << >> /\ consents[u][Len(consents[u])] = "given"

\* Wrong on purpose: a proposal that waits for its answer is overlooked.
ExistsMatchedTrade(u) ==
    \E t \in Trades : Exists(t) /\ IsParticipant(Row(t), u) /\ Row(t).status = "matched"

ExistsInProgressTrade(u) ==
    \E t \in Trades : Exists(t) /\ IsParticipant(Row(t), u) /\ IsInProgress(Row(t))

-----------------------------------------------------------------------------
TypeOK ==
    /\ alive \in [Users -> BOOLEAN]
    /\ consents \in [Users -> Seq({"given", "withdrawn"})]
    /\ trades \in [Trades -> TradeRows \cup {NoTrade}]
    /\ events \in [Trades -> Seq([kind: EventKinds, actor: Users])]
    /\ messages \in [Trades -> [Users -> Nat]]
    /\ userLock \in [Users -> Requests \cup {NoRequest}]
    /\ req \in [Requests -> RequestStates]

\* Accounts are made with a consent; those older than the table have none.
Init ==
    /\ alive = [u \in Users |-> TRUE]
    /\ consents \in [Users -> {<< >>, <<"given">>}]
    /\ trades = [t \in Trades |-> NoTrade]
    /\ events = [t \in Trades |-> << >>]
    /\ messages = [t \in Trades |-> [u \in Users |-> 0]]
    /\ userLock = [u \in Users |-> NoRequest]
    /\ req = [r \in Requests |-> Idle]

-----------------------------------------------------------------------------
(* How a request moves. *)

At(r, op, pc) == req[r].pc = pc /\ req[r].op = op

\* A signed-in user's request passes its first reads.  A request that fails
\* them changes nothing and is not a step.
Begin(r, state) ==
    /\ req[r] = Idle
    /\ alive[state.user]
    /\ req' = [req EXCEPT ![r] = state]
    /\ UNCHANGED <<database, userLock>>

Proceed(r, pc) ==
    /\ req' = [req EXCEPT ![r].pc = pc]
    /\ UNCHANGED database

\* The answer is sent; the transaction, if one is open, is over.
Return(r) ==
    /\ req' = [req EXCEPT ![r] = Idle]
    /\ userLock' = [u \in Users |-> IF userLock[u] = r THEN NoRequest ELSE userLock[u]]

Refuse(r) == Return(r) /\ UNCHANGED database

\* LockUserByID: waits for the row, then finds it only if the user has not
\* left in the meantime.
LockUser(r, u, next) ==
    /\ userLock[u] = NoRequest
    /\ IF alive[u]
       THEN Proceed(r, next) /\ userLock' = [userLock EXCEPT ![u] = r]
       ELSE Refuse(r)

\* Any statement may fail, the client may go away, the process may die:
\* the open transaction is rolled back.
Abort(r) == req[r] # Idle /\ Refuse(r)

-----------------------------------------------------------------------------
(* The reads before the transaction. *)

ApproveTradeBegin(r, u, t) ==
    /\ Exists(t)
    /\ CanView(Row(t), u)
    /\ CanReply(Row(t), u)
    /\ Row(t).status = "pending"
    /\ Begin(r, [pc |-> "consent", op |-> "approve", user |-> u, trade |-> t, note |-> FALSE])

\* Declining without a word asks for no consent.
DeclineTradeBegin(r, u, t, note) ==
    /\ Exists(t)
    /\ CanView(Row(t), u)
    /\ CanReply(Row(t), u)
    /\ Row(t).status = "pending"
    /\ Begin(r, [pc |-> IF note THEN "consent" ELSE "write",
                 op |-> "decline", user |-> u, trade |-> t, note |-> note])

\* The stage is not looked at before the update.
WithdrawTradeBegin(r, u, t) ==
    /\ Exists(t)
    /\ CanView(Row(t), u)
    /\ CanWithdraw(Row(t), u)
    /\ Begin(r, [pc |-> "write", op |-> "withdraw", user |-> u, trade |-> t, note |-> FALSE])

\* A cancellation always carries a word.
CancelTradeBegin(r, u, t) ==
    /\ Exists(t)
    /\ CanView(Row(t), u)
    /\ Row(t).status = "matched"
    /\ ~HasAnyCompleted(Row(t))
    /\ Begin(r, [pc |-> "consent", op |-> "cancel", user |-> u, trade |-> t, note |-> TRUE])

FailTradeBegin(r, u, t, note) ==
    /\ Exists(t)
    /\ CanView(Row(t), u)
    /\ Row(t).status = "matched"
    /\ Begin(r, [pc |-> IF note THEN "consent" ELSE "write",
                 op |-> "fail", user |-> u, trade |-> t, note |-> note])

CompleteTradeBegin(r, u, t, note) ==
    /\ Exists(t)
    /\ CanView(Row(t), u)
    /\ Row(t).status = "matched"
    /\ ~HasCompleted(Row(t), u)
    /\ Begin(r, [pc |-> IF note THEN "consent" ELSE "write",
                 op |-> "complete", user |-> u, trade |-> t, note |-> note])

CreateTradeMessageBegin(r, u, t) ==
    /\ Exists(t)
    /\ CanView(Row(t), u)
    /\ IsInProgress(Row(t))
    /\ messages[t][u] < MaxMessages
    /\ Begin(r, [pc |-> "consent", op |-> "message", user |-> u, trade |-> t, note |-> FALSE])

\* Bound: a proposal is begun only while an id is left for its trade.
RoomForTrade ==
    Cardinality({x \in Requests : req[x].pc # "idle" /\ req[x].op = "propose"})
        < Cardinality({t \in Trades : ~Exists(t)})

\* FindByAtname finds a partner who has not left.
CreateTradeBegin(r, u, v, note) ==
    /\ RoomForTrade
    /\ alive[v]
    /\ u # v
    /\ Begin(r, [pc |-> "lock1", op |-> "propose", user |-> u, with |-> v, note |-> note])

\* Wrong on purpose: looks for trades without locking the user.
WithdrawMessageConsentUnlocked(r, u) ==
    Begin(r, [pc |-> "check", op |-> "revoke", user |-> u])

WithdrawMessageConsentBegin(r, u) ==
    Begin(r, [pc |-> "lock1", op |-> "revoke", user |-> u])

\* The form's password and check box are looked at under the lock; a wrong
\* form is an Abort.
DeleteAccountBegin(r, u) ==
    Begin(r, [pc |-> "lock1", op |-> "leave", user |-> u])

CreateMessageConsentBegin(r, u) ==
    /\ ~ConsentValid(u)
    /\ Len(consents[u]) < MaxConsents
    /\ Begin(r, [pc |-> "write", op |-> "agree", user |-> u])

-----------------------------------------------------------------------------
(* The consent, read on its own or, by a proposal, under the users' locks. *)

CheckConsent(r) ==
    /\ req[r].pc = "consent"
    /\ IF ConsentValid(req[r].user)
       THEN Proceed(r, "write") /\ UNCHANGED userLock
       ELSE Refuse(r)

(* The locks and the checks under them. *)

\* Wrong on purpose: one's own row first.
LockOrderAsGiven(p, q) == <<p, q>>

LockOrder(p, q) == IF p < q THEN <<p, q>> ELSE <<q, p>>

\* Both users of the proposal are locked, the smaller id first.
CreateTradeLockFirst(r) ==
    /\ At(r, "propose", "lock1")
    /\ LockUser(r, LockOrder(req[r].user, req[r].with)[1], "lock2")

\* Wrong on purpose: the second row is taken for granted.
CreateTradeSkipSecond(r) ==
    /\ At(r, "propose", "lock2")
    /\ Proceed(r, "consent")
    /\ UNCHANGED userLock

CreateTradeLockSecond(r) ==
    /\ At(r, "propose", "lock2")
    /\ LockUser(r, LockOrder(req[r].user, req[r].with)[2], "consent")

LockOwnUser(r) ==
    /\ At(r, "revoke", "lock1") \/ At(r, "leave", "lock1")
    /\ LockUser(r, req[r].user, "check")

CheckNoTradeInProgress(r) ==
    /\ At(r, "revoke", "check") \/ At(r, "leave", "check")
    /\ IF ExistsInProgressTrade(req[r].user)
       THEN Refuse(r)
       ELSE Proceed(r, "write") /\ UNCHANGED userLock

-----------------------------------------------------------------------------
(* The commits. *)

Said(t, u, note) ==
    IF note THEN [messages EXCEPT ![t][u] = @ + 1] ELSE messages

\* The row is updated, the event and the note are inserted; when no row
\* meets the condition the answer is a conflict and nothing is kept.
Record(r, updated, kind) ==
    LET u == req[r].user
        t == req[r].trade
    IN  IF updated = Row(t)
        THEN Refuse(r)
        ELSE /\ trades' = [trades EXCEPT ![t] = updated]
             /\ events' = [events EXCEPT ![t] = Append(@, [kind |-> kind, actor |-> u])]
             /\ messages' = Said(t, u, req[r].note)
             /\ Return(r)
             /\ UNCHANGED <<alive, consents>>

ApproveTradeCommit(r) ==
    /\ At(r, "approve", "write")
    /\ Record(r, ApproveTrade(Row(req[r].trade), req[r].user), "approved")

DeclineTradeCommit(r) ==
    /\ At(r, "decline", "write")
    /\ Record(r, DeclineTrade(Row(req[r].trade), req[r].user), "declined")

WithdrawTradeCommit(r) ==
    /\ At(r, "withdraw", "write")
    /\ Record(r, WithdrawTrade(Row(req[r].trade), req[r].user), "withdrawn")

CancelTradeCommit(r) ==
    /\ At(r, "cancel", "write")
    /\ Record(r, CancelTrade(Row(req[r].trade), req[r].user), "cancelled")

FailTradeCommit(r) ==
    /\ At(r, "fail", "write")
    /\ Record(r, FailTrade(Row(req[r].trade), req[r].user), "failed")

CompleteTradeCommit(r) ==
    /\ At(r, "complete", "write")
    /\ Record(r, CompleteTrade(Row(req[r].trade), req[r].user), "completed")

\* Wrong on purpose: trusts the stage read before.
CreateTradeMessageStale(r) ==
    /\ At(r, "message", "write")
    /\ messages' = Said(req[r].trade, req[r].user, TRUE)
    /\ Return(r)
    /\ UNCHANGED <<alive, consents, trades, events>>

\* INSERT ... SELECT ... WHERE status IN (...) FOR SHARE
CreateTradeMessageCommit(r) ==
    /\ At(r, "message", "write")
    /\ LET t == req[r].trade
       IN  IF IsInProgress(Row(t))
           THEN /\ messages' = Said(t, req[r].user, TRUE)
                /\ Return(r)
                /\ UNCHANGED <<alive, consents, trades, events>>
           ELSE Refuse(r)

\* The selected items have passed the validator; a refusal of it is an Abort.
CreateTradeCommit(r, t) ==
    /\ At(r, "propose", "write")
    /\ ~Exists(t)
    /\ LET p == req[r].user
       IN  /\ trades' = [trades EXCEPT ![t] = CreateTrade(p, req[r].with)]
           /\ events' = [events EXCEPT ![t] = <<[kind |-> "proposed", actor |-> p]>>]
           /\ messages' = Said(t, p, req[r].note)
    /\ Return(r)
    /\ UNCHANGED <<alive, consents>>

\* Every standing consent is withdrawn; none standing is a conflict.
WithdrawMessageConsentCommit(r) ==
    /\ At(r, "revoke", "write")
    /\ LET u == req[r].user
       IN  IF \E i \in 1..Len(consents[u]) : consents[u][i] = "given"
           THEN /\ consents' = [consents EXCEPT ![u] = [i \in 1..Len(@) |-> "withdrawn"]]
                /\ Return(r)
                /\ UNCHANGED <<alive, trades, events, messages>>
           ELSE Refuse(r)

\* Neither a transaction nor a lock: the earlier look may be out of date.
CreateMessageConsentCommit(r) ==
    /\ At(r, "agree", "write")
    /\ consents' = [consents EXCEPT ![req[r].user] = Append(@, "given")]
    /\ Return(r)
    /\ UNCHANGED <<alive, trades, events, messages>>

\* Trades, events, messages and consents of a user who leaves stay.
DeleteAccountCommit(r) ==
    /\ At(r, "leave", "write")
    /\ alive' = [alive EXCEPT ![req[r].user] = FALSE]
    /\ Return(r)
    /\ UNCHANGED <<consents, trades, events, messages>>

-----------------------------------------------------------------------------
BeginTrade(r, u, t) ==
    \/ ApproveTradeBegin(r, u, t)
    \/ \E note \in Notes : DeclineTradeBegin(r, u, t, note)
    \/ WithdrawTradeBegin(r, u, t)
    \/ CancelTradeBegin(r, u, t)
    \/ \E note \in Notes : FailTradeBegin(r, u, t, note)
    \/ \E note \in Notes : CompleteTradeBegin(r, u, t, note)
    \/ CreateTradeMessageBegin(r, u, t)

BeginUser(r, u) ==
    \/ \E v \in Users, note \in Notes : CreateTradeBegin(r, u, v, note)
    \/ WithdrawMessageConsentBegin(r, u)
    \/ DeleteAccountBegin(r, u)
    \/ CreateMessageConsentBegin(r, u)

\* The step the server owes a request it has begun.
Continue(r) ==
    \/ CheckConsent(r)
    \/ CreateTradeLockFirst(r)
    \/ CreateTradeLockSecond(r)
    \/ LockOwnUser(r)
    \/ CheckNoTradeInProgress(r)
    \/ ApproveTradeCommit(r)
    \/ DeclineTradeCommit(r)
    \/ WithdrawTradeCommit(r)
    \/ CancelTradeCommit(r)
    \/ FailTradeCommit(r)
    \/ CompleteTradeCommit(r)
    \/ CreateTradeMessageCommit(r)
    \/ \E t \in Trades : CreateTradeCommit(r, t)
    \/ WithdrawMessageConsentCommit(r)
    \/ CreateMessageConsentCommit(r)
    \/ DeleteAccountCommit(r)

Next ==
    \E r \in Requests :
        \/ \E u \in Users, t \in Trades : BeginTrade(r, u, t)
        \/ \E u \in Users : BeginUser(r, u)
        \/ Continue(r)
        \/ Abort(r)

Spec == Init /\ [][Next]_vars

\* A begun request goes on; PostgreSQL serves a row's waiters in turn, so a
\* lock that keeps becoming free is granted in the end.
FairSpec == Spec /\ \A r \in Requests : SF_vars(Continue(r))

-----------------------------------------------------------------------------
(* What must hold. *)

\* Nobody leaves the service in the middle of a trade: both users of a trade
\* in progress still have their accounts, although a proposal and the
\* deletion of either account may be under way together.
TradersAreMembers ==
    \A t \in Trades :
        Exists(t) /\ IsInProgress(Row(t))
            => alive[Row(t).proposer] /\ alive[Row(t).receiver]

\* Consent cannot vanish under a trade: the proposer of a trade in progress,
\* and both users of a matched one, have a standing consent.
TradersConsent ==
    \A t \in Trades :
        Exists(t) =>
            /\ IsInProgress(Row(t)) => ConsentValid(Row(t).proposer)
            /\ Row(t).status = "matched" => ConsentValid(Row(t).receiver)

PressesFit(row) ==
    /\ (row.status = "completed") <=> (row.proposerCompleted /\ row.receiverCompleted)
    /\ row.status \in {"pending", "withdrawn", "declined", "cancelled"} => ~HasAnyCompleted(row)

\* Two presses, however close together, end the trade, and nothing else
\* counts as "completed"; a trade is called off only if nobody had pressed.
PressesDecide == \A t \in Trades : Exists(t) => PressesFit(Row(t))

TimesFit(row) ==
    /\ row.endedAt <=> row.status \in EndedStatuses
    /\ row.matchedAt <=> row.status \in {"matched", "completed", "failed", "cancelled"}

\* The times of a row agree with its stage, whichever request moved it.
TimesFollowStage == \A t \in Trades : Exists(t) => TimesFit(Row(t))

\* The badge counts exactly the trades whose page says that it is the user's
\* turn: the query and the page decide it apart from each other.
BadgeCountsTurns ==
    \A t \in Trades, u \in Users :
        Exists(t) => (IsAwaiting(Row(t), u) <=> CountedAsAwaiting(Row(t), u))

\* Once a trade has ended, no request begun before the end moves it or adds
\* an event or a message to it.
EndedTradesRest ==
    [][\A t \in Trades :
          Exists(t) /\ ~IsInProgress(Row(t))
              => <<trades[t], events[t], messages[t]>>' = <<trades[t], events[t], messages[t]>>]_vars

\* Words are recorded for a user, as a message or as the note of another
\* step, only while the user's consent stands, although it was looked at
\* before the transaction.
WordsNeedConsent ==
    [][\A t \in Trades, u \in Users :
          messages'[t][u] # messages[t][u] => ConsentValid(u)]_vars

\* No request waits for ever on the users' rows: two proposals, a withdrawal
\* of consent and a deletion never wait for each other in a circle.
RequestsReturn ==
    \A r \in Requests : req[r] # Idle ~> req[r] = Idle

-----------------------------------------------------------------------------
(* Why it holds: what is true of the requests in flight. *)

Serves(r, ops, pcs) == req[r].pc \in pcs /\ req[r].op \in ops

PartnersDiffer ==
    \A t \in Trades : Exists(t) => Row(t).proposer # Row(t).receiver

\* A request about a trade is one of its users', and the trade is there.
NamesItsTrade(r) ==
    Serves(r, TradeOps, {"consent", "write"}) =>
        /\ Exists(req[r].trade)
        /\ IsParticipant(Row(req[r].trade), req[r].user)

\* Behind its locks a proposal finds both users present until it commits.
HoldsItsUsers(r) ==
    Serves(r, {"propose"}, {"lock1", "lock2", "consent", "write"}) =>
        LET order == LockOrder(req[r].user, req[r].with)
        IN  /\ req[r].user # req[r].with
            /\ req[r].pc # "lock1" => userLock[order[1]] = r /\ alive[order[1]]
            /\ req[r].pc \in {"consent", "write"} => userLock[order[2]] = r /\ alive[order[2]]
            /\ req[r].pc = "write" => ConsentValid(req[r].user)

\* Behind its lock a withdrawal of consent or a deletion keeps the user out
\* of new trades, so what its check found stays true.
HoldsItsUser(r) ==
    Serves(r, {"revoke", "leave"}, {"check", "write"}) =>
        /\ userLock[req[r].user] = r /\ alive[req[r].user]
        /\ req[r].pc = "write" => ~ExistsInProgressTrade(req[r].user)

\* What needs consent: approving, and whatever carries words.
RecordsWords(r) == req[r].op \in {"approve", "cancel", "message"} \/ req[r].note

\* A consent that was looked at before the transaction stands as long as the
\* trade goes on; if it does not go on, the commit finds no row.
ConsentStands(r) ==
    Serves(r, TradeOps, {"write"}) /\ RecordsWords(r) /\ IsInProgress(Row(req[r].trade))
        => ConsentValid(req[r].user)

RequestInOrder(r) ==
    NamesItsTrade(r) /\ HoldsItsUsers(r) /\ HoldsItsUser(r) /\ ConsentStands(r)

RequestsInOrder == \A r \in Requests : RequestInOrder(r)

TradesInOrder ==
    PartnersDiffer /\ TradersAreMembers /\ TradersConsent /\ PressesDecide /\ TimesFollowStage

\* The inductive invariant.
Inv == TypeOK /\ TradesInOrder /\ RequestsInOrder

=============================================================================
