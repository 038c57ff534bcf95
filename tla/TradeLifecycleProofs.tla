-------------------------- MODULE TradeLifecycleProofs --------------------------
(***************************************************************************)
(* Theorems about TradeLifecycle, for any users, trades and requests.      *)
(***************************************************************************)
EXTENDS TradeRefinement, FiniteSetTheorems, TLAPS

-----------------------------------------------------------------------------
(* The statements keep a row a row. *)

LEMMA RowsStayRows ==
    ASSUME NEW t \in TradeRows, NEW u \in Users
    PROVE  /\ WithdrawTrade(t, u) \in TradeRows
           /\ ApproveTrade(t, u) \in TradeRows
           /\ DeclineTrade(t, u) \in TradeRows
           /\ CompleteTrade(t, u) \in TradeRows
           /\ FailTrade(t, u) \in TradeRows
           /\ CancelTrade(t, u) \in TradeRows
<1> USE DEF TradeRows, Statuses, InProgressStatuses, EndedStatuses
<1>1. WithdrawTrade(t, u) \in TradeRows  BY DEF WithdrawTrade
<1>2. ApproveTrade(t, u) \in TradeRows  BY DEF ApproveTrade
<1>3. DeclineTrade(t, u) \in TradeRows  BY DEF DeclineTrade
<1>4. CompleteTrade(t, u) \in TradeRows  BY DEF CompleteTrade, HasAnyCompleted
<1>5. FailTrade(t, u) \in TradeRows  BY DEF FailTrade
<1>6. CancelTrade(t, u) \in TradeRows  BY DEF CancelTrade
<1>7. QED  BY <1>1, <1>2, <1>3, <1>4, <1>5, <1>6

LEMMA NewRowIsARow ==
    ASSUME NEW p \in Users, NEW q \in Users
    PROVE  CreateTrade(p, q) \in TradeRows
BY DEF CreateTrade, TradeRows, Statuses, InProgressStatuses

(* How a request moves keeps it a request, whatever else the step does. *)

LEMMA BeginKeepsType ==
    ASSUME TypeOK, NEW r \in Requests, NEW state \in RequestStates, Begin(r, state)
    PROVE  TypeOK'
BY DEF TypeOK, Begin, database

LEMMA ReturnKeepsType ==
    ASSUME TypeOK, NEW r \in Requests, Return(r)
    PROVE  /\ req' \in [Requests -> RequestStates]
           /\ userLock' \in [Users -> Requests \cup {NoRequest}]
BY DEF TypeOK, Return, RequestStates

LEMMA RefuseKeepsType ==
    ASSUME TypeOK, NEW r \in Requests, Refuse(r)
    PROVE  TypeOK'
BY ReturnKeepsType DEF TypeOK, Refuse, database

LEMMA LockKeepsType ==
    ASSUME TypeOK, NEW r \in Requests, NEW u \in Users, NEW next,
           [req[r] EXCEPT !.pc = next] \in RequestStates,
           LockUser(r, u, next)
    PROVE  TypeOK'
<1>1. CASE alive[u]
  BY <1>1 DEF TypeOK, LockUser, Proceed, database
<1>2. CASE ~alive[u]
  BY <1>2, RefuseKeepsType DEF LockUser
<1>3. QED  BY <1>1, <1>2

LEMMA ProceedKeepsType ==
    ASSUME TypeOK, NEW r \in Requests, NEW next,
           [req[r] EXCEPT !.pc = next] \in RequestStates,
           Proceed(r, next), UNCHANGED userLock
    PROVE  TypeOK'
BY DEF TypeOK, Proceed, database

LEMMA SaidKeepsType ==
    ASSUME TypeOK, NEW t \in Trades, NEW u \in Users, NEW note
    PROVE  Said(t, u, note) \in [Trades -> [Users -> Nat]]
<1>1. messages[t] \in [Users -> Nat]
  BY DEF TypeOK
<1>2. [messages[t] EXCEPT ![u] = @ + 1] \in [Users -> Nat]
  BY <1>1
<1>3. [messages EXCEPT ![t][u] = @ + 1] = [messages EXCEPT ![t] = [messages[t] EXCEPT ![u] = @ + 1]]
  BY DEF TypeOK
<1>4. [messages EXCEPT ![t] = [messages[t] EXCEPT ![u] = @ + 1]] \in [Trades -> [Users -> Nat]]
  BY <1>2 DEF TypeOK
<1>5. QED  BY <1>3, <1>4 DEF Said, TypeOK

LEMMA RecordKeepsType ==
    ASSUME TypeOK, NEW r \in Requests,
           req[r].user \in Users, req[r].trade \in Trades, req[r].note \in BOOLEAN,
           NEW updated \in TradeRows \cup {NoTrade}, NEW kind \in EventKinds,
           Record(r, updated, kind)
    PROVE  TypeOK'
<1>1. CASE updated = Row(req[r].trade)
  BY <1>1, RefuseKeepsType DEF Record
<1>2. CASE updated # Row(req[r].trade)
  <2>1. trades' \in [Trades -> TradeRows \cup {NoTrade}]
    BY <1>2 DEF Record, TypeOK
  <2>2. events' \in [Trades -> Seq([kind: EventKinds, actor: Users])]
    <3>1. events' = [events EXCEPT ![req[r].trade] = Append(@, [kind |-> kind, actor |-> req[r].user])]
      BY <1>2 DEF Record
    <3>2. [kind |-> kind, actor |-> req[r].user] \in [kind: EventKinds, actor: Users]
      OBVIOUS
    <3>3. events[req[r].trade] \in Seq([kind: EventKinds, actor: Users])
      BY DEF TypeOK
    <3>4. Append(events[req[r].trade], [kind |-> kind, actor |-> req[r].user])
             \in Seq([kind: EventKinds, actor: Users])
      BY <3>2, <3>3
    <3> DEFINE Histories == Seq([kind: EventKinds, actor: Users])
    <3>5. events \in [Trades -> Histories] /\ Append(events[req[r].trade], [kind |-> kind, actor |-> req[r].user]) \in Histories
      BY <3>4 DEF TypeOK
    <3> HIDE DEF Histories
    <3>6. events' \in [Trades -> Histories]
      BY <3>1, <3>5
    <3>7. QED  BY <3>6 DEF Histories
  <2>3. messages' \in [Trades -> [Users -> Nat]]
    BY <1>2, SaidKeepsType DEF Record
  <2>4. /\ req' \in [Requests -> RequestStates]
        /\ userLock' \in [Users -> Requests \cup {NoRequest}]
    BY <1>2, ReturnKeepsType DEF Record
  <2>5. QED  BY <1>2, <2>1, <2>2, <2>3, <2>4 DEF TypeOK, Record
<1>3. QED  BY <1>1, <1>2

-----------------------------------------------------------------------------
(* Every step keeps the types. *)

LEMMA InitTypes == Init => TypeOK
<1> SUFFICES ASSUME Init PROVE TypeOK
  OBVIOUS
<1>1. << >> \in Seq({"given", "withdrawn"}) /\ <<"given">> \in Seq({"given", "withdrawn"})
  OBVIOUS
<1>2. consents \in [Users -> Seq({"given", "withdrawn"})]
  BY <1>1 DEF Init
<1>3. << >> \in Seq([kind: EventKinds, actor: Users])
  OBVIOUS
<1>4. events \in [Trades -> Seq([kind: EventKinds, actor: Users])]
  BY <1>3 DEF Init
<1>5. req \in [Requests -> RequestStates]
  BY DEF Init, RequestStates
<1>6. messages \in [Trades -> [Users -> Nat]]
  BY DEF Init
<1>7. QED  BY <1>2, <1>4, <1>5, <1>6 DEF Init, TypeOK

LEMMA TradeBeginsKeepType ==
    ASSUME TypeOK, NEW r \in Requests, NEW u \in Users, NEW t \in Trades, BeginTrade(r, u, t)
    PROVE  TypeOK'
<1> USE BeginKeepsType, NotesAreChoices DEF RequestStates, TradeRequests, TradeOps
<1>1. CASE ApproveTradeBegin(r, u, t)  BY <1>1 DEF ApproveTradeBegin
<1>2. CASE \E note \in Notes : DeclineTradeBegin(r, u, t, note)  BY <1>2 DEF DeclineTradeBegin
<1>3. CASE WithdrawTradeBegin(r, u, t)  BY <1>3 DEF WithdrawTradeBegin
<1>4. CASE CancelTradeBegin(r, u, t)  BY <1>4 DEF CancelTradeBegin
<1>5. CASE \E note \in Notes : FailTradeBegin(r, u, t, note)  BY <1>5 DEF FailTradeBegin
<1>6. CASE \E note \in Notes : CompleteTradeBegin(r, u, t, note)  BY <1>6 DEF CompleteTradeBegin
<1>7. CASE CreateTradeMessageBegin(r, u, t)  BY <1>7 DEF CreateTradeMessageBegin
<1>8. QED  BY <1>1, <1>2, <1>3, <1>4, <1>5, <1>6, <1>7 DEF BeginTrade

LEMMA UserBeginsKeepType ==
    ASSUME TypeOK, NEW r \in Requests, NEW u \in Users, BeginUser(r, u)
    PROVE  TypeOK'
<1> USE BeginKeepsType, NotesAreChoices DEF RequestStates, Proposals, UserRequests, UserOps
<1>1. CASE \E v \in Users, note \in Notes : CreateTradeBegin(r, u, v, note)
  BY <1>1 DEF CreateTradeBegin
<1>2. CASE WithdrawMessageConsentBegin(r, u)  BY <1>2 DEF WithdrawMessageConsentBegin
<1>3. CASE DeleteAccountBegin(r, u)  BY <1>3 DEF DeleteAccountBegin
<1>4. CASE CreateMessageConsentBegin(r, u)  BY <1>4 DEF CreateMessageConsentBegin
<1>5. QED  BY <1>1, <1>2, <1>3, <1>4 DEF BeginUser

\* A request of an operation has the fields of the operation.
LEMMA FieldsOfRequest ==
    ASSUME TypeOK, NEW r \in Requests, req[r].pc # "idle"
    PROVE  /\ req[r].op \in TradeOps \cup {"propose"} \cup UserOps
           /\ req[r].user \in Users
           /\ req[r].op \in TradeOps =>
                /\ req[r] \in TradeRequests
                /\ req[r].trade \in Trades /\ req[r].note \in BOOLEAN
                /\ req[r].pc \in {"consent", "write"}
                /\ [req[r] EXCEPT !.pc = "write"] \in RequestStates
           /\ req[r].op = "propose" =>
                /\ req[r] \in Proposals
                /\ req[r].with \in Users /\ req[r].note \in BOOLEAN
                /\ req[r].pc \in {"lock1", "lock2", "consent", "write"}
                /\ \A next \in {"lock2", "consent", "write"} :
                      [req[r] EXCEPT !.pc = next] \in RequestStates
           /\ req[r].op \in UserOps =>
                /\ req[r] \in UserRequests
                /\ req[r].pc \in {"lock1", "check", "write"}
                /\ \A next \in {"check", "write"} :
                      [req[r] EXCEPT !.pc = next] \in RequestStates
<1>0. req[r] \in TradeRequests \/ req[r] \in Proposals \/ req[r] \in UserRequests
  BY DEF TypeOK, RequestStates, Idle
<1>1. CASE req[r] \in TradeRequests
  <2>1. [req[r] EXCEPT !.pc = "write"] \in TradeRequests  BY <1>1 DEF TradeRequests
  <2>2. QED  BY <1>1, <2>1 DEF TradeRequests, TradeOps, UserOps, RequestStates
<1>2. CASE req[r] \in Proposals
  <2>1. \A next \in {"lock2", "consent", "write"} : [req[r] EXCEPT !.pc = next] \in Proposals
    BY <1>2 DEF Proposals
  <2>2. QED  BY <1>2, <2>1 DEF Proposals, TradeOps, UserOps, RequestStates
<1>3. CASE req[r] \in UserRequests
  <2>1. \A next \in {"check", "write"} : [req[r] EXCEPT !.pc = next] \in UserRequests
    BY <1>3 DEF UserRequests
  <2>2. QED  BY <1>3, <2>1 DEF UserRequests, TradeOps, UserOps, RequestStates
<1>4. QED  BY <1>0, <1>1, <1>2, <1>3

-----------------------------------------------------------------------------
(* What a step of one request means for the others. *)

\* The trade keeps its users, and no step puts an ended one in progress.
GoesOn(t) ==
    /\ Exists(t)'
    /\ Row(t)'.proposer = Row(t).proposer
    /\ Row(t)'.receiver = Row(t).receiver
    /\ IsInProgress(Row(t))' => IsInProgress(Row(t))

\* A step of r disturbs no other request if accounts and consents disappear
\* only behind r's lock, consents only from users without a trade in
\* progress, and trades appear only between users r has locked.
LEMMA OthersStayInOrder ==
    ASSUME Inv, NEW r \in Requests,
           \A x \in Requests : x # r => req'[x] = req[x],
           \A x \in Requests, u \in Users : x # r /\ userLock[u] = x => userLock'[u] = x,
           \A u \in Users : alive[u] => alive'[u] \/ userLock[u] = r,
           \A u \in Users : ConsentValid(u) =>
               ConsentValid(u)' \/ (userLock[u] = r /\ ~ExistsInProgressTrade(u)),
           \A t \in Trades : Exists(t) => GoesOn(t),
           \A t \in Trades : ~Exists(t) /\ Exists(t)' =>
               /\ userLock[Row(t)'.proposer] = r
               /\ userLock[Row(t)'.receiver] = r,
           NEW x \in Requests, x # r
    PROVE  RequestInOrder(x)'
<1>0. req'[x] = req[x] /\ RequestInOrder(x)
  BY DEF Inv, RequestsInOrder
<1>1. NamesItsTrade(x)'
  <2> SUFFICES ASSUME Serves(x, TradeOps, {"consent", "write"})
               PROVE  NamesItsTrade(x)'
    BY <1>0 DEF NamesItsTrade, Serves
  <2>1. req[x].trade \in Trades
    BY FieldsOfRequest DEF Serves, Inv
  <2>2. Exists(req[x].trade) /\ IsParticipant(Row(req[x].trade), req[x].user)
    BY <1>0 DEF RequestInOrder, NamesItsTrade
  <2>3. GoesOn(req[x].trade)
    BY <2>1, <2>2
  <2>4. QED  BY <1>0, <2>2, <2>3 DEF NamesItsTrade, GoesOn, Exists, Row, IsParticipant
<1>2. HoldsItsUsers(x)'
  <2> SUFFICES ASSUME Serves(x, {"propose"}, {"lock1", "lock2", "consent", "write"})
               PROVE  HoldsItsUsers(x)'
    BY <1>0 DEF HoldsItsUsers, Serves
  <2> DEFINE p == req[x].user
             q == req[x].with
             one == LockOrder(p, q)[1]
             two == LockOrder(p, q)[2]
  <2>1. p \in Users /\ q \in Users
    BY FieldsOfRequest DEF Serves, Inv
  <2>2. one \in Users /\ two \in Users /\ p \in {one, two}
    BY <2>1 DEF LockOrder
  <2>3. /\ p # q
        /\ req[x].pc # "lock1" => userLock[one] = x /\ alive[one]
        /\ req[x].pc \in {"consent", "write"} => userLock[two] = x /\ alive[two]
        /\ req[x].pc = "write" => ConsentValid(p)
    BY <1>0 DEF RequestInOrder, HoldsItsUsers
  <2>4. req[x].pc # "lock1" => userLock'[one] = x /\ alive'[one]
    BY <2>2, <2>3
  <2>5. req[x].pc \in {"consent", "write"} => userLock'[two] = x /\ alive'[two]
    BY <2>2, <2>3
  <2>6. req[x].pc = "write" => ConsentValid(p)'
    BY <2>1, <2>2, <2>3
  <2>7. LockOrder(req'[x].user, req'[x].with) = LockOrder(p, q)
    BY <1>0
  <2>8. ConsentValid(req[x].user)' <=> ConsentValid(p)'
    BY <1>0 DEF ConsentValid
  <2> HIDE DEF one, two
  <2>9. QED  BY <1>0, <2>3, <2>4, <2>5, <2>6, <2>7, <2>8 DEF HoldsItsUsers, one, two, p, q, LockOrder
<1>3. HoldsItsUser(x)'
  <2> SUFFICES ASSUME Serves(x, {"revoke", "leave"}, {"check", "write"})
               PROVE  HoldsItsUser(x)'
    BY <1>0 DEF HoldsItsUser, Serves
  <2> DEFINE u == req[x].user
  <2>1. u \in Users
    BY FieldsOfRequest DEF Serves, Inv
  <2>2. /\ userLock[u] = x /\ alive[u]
        /\ req[x].pc = "write" => ~ExistsInProgressTrade(u)
    BY <1>0 DEF RequestInOrder, HoldsItsUser
  <2>3. userLock'[u] = x /\ alive'[u]
    BY <2>1, <2>2
  <2>4. ASSUME ~ExistsInProgressTrade(u), NEW t \in Trades,
               Exists(t)', IsParticipant(Row(t), u)', IsInProgress(Row(t))'
        PROVE  FALSE
    <3>0. u = req'[x].user
      BY <1>0
    <3>1. CASE Exists(t)
      BY <1>0, <2>4, <3>1 DEF GoesOn, ExistsInProgressTrade, IsParticipant, Row
    <3>2. CASE ~Exists(t)
      <4>1. userLock[Row(t)'.proposer] = r /\ userLock[Row(t)'.receiver] = r
        BY <2>4, <3>2
      <4>2. u = Row(t)'.proposer \/ u = Row(t)'.receiver
        BY <2>4, <3>0 DEF IsParticipant
      <4>3. QED  BY <2>2, <4>1, <4>2
    <3>3. QED  BY <3>1, <3>2
  <2>5. ~ExistsInProgressTrade(u) => ~ExistsInProgressTrade(u)'
    BY <2>4 DEF ExistsInProgressTrade
  <2>6. ExistsInProgressTrade(req[x].user)' <=> ExistsInProgressTrade(u)'
    BY <1>0 DEF ExistsInProgressTrade
  <2>7. QED  BY <1>0, <2>2, <2>3, <2>5, <2>6 DEF HoldsItsUser, Serves
<1>4. ConsentStands(x)'
  <2> DEFINE t == req[x].trade
             u == req[x].user
  <2> SUFFICES ASSUME Serves(x, TradeOps, {"write"}), RecordsWords(x), IsInProgress(Row(req[x].trade))'
               PROVE  ConsentValid(req[x].user)'
    BY <1>0 DEF ConsentStands, Serves, RecordsWords
  <2>1. t \in Trades /\ u \in Users /\ Exists(t) /\ IsParticipant(Row(t), u)
    BY <1>0, FieldsOfRequest DEF Serves, Inv, RequestInOrder, NamesItsTrade
  <2>2. IsInProgress(Row(t))
    BY <1>0, <2>1 DEF GoesOn, Row, IsInProgress
  <2>3. ConsentValid(u)
    BY <1>0, <2>2 DEF RequestInOrder, ConsentStands
  <2>4. ExistsInProgressTrade(u)
    BY <2>1, <2>2 DEF ExistsInProgressTrade
  <2>5. QED  BY <1>0, <2>1, <2>3, <2>4 DEF ConsentValid
<1>5. QED  BY <1>1, <1>2, <1>3, <1>4 DEF RequestInOrder

(* Steps that leave the database alone: a request begins, waits for a lock, *)
(* looks, or is refused.                                                    *)

LEMMA QuietStep ==
    ASSUME Inv, NEW r \in Requests,
           UNCHANGED database, TypeOK',
           \A x \in Requests : x # r => req'[x] = req[x],
           \A x \in Requests, u \in Users : x # r /\ userLock[u] = x => userLock'[u] = x,
           RequestInOrder(r)'
    PROVE  Inv'
<1>1. TradesInOrder'
  BY DEF Inv, TradesInOrder, PartnersDiffer, TradersAreMembers, TradersConsent, PressesDecide,
         TimesFollowStage, Exists, Row, IsInProgress, ConsentValid, database, PressesFit, TimesFit,
         HasAnyCompleted
<1>2. ASSUME NEW x \in Requests, x # r PROVE RequestInOrder(x)'
  <2>1. \A u \in Users : alive[u] => alive'[u]
    BY DEF database
  <2>2. \A u \in Users : ConsentValid(u) => ConsentValid(u)'
    BY DEF database, ConsentValid
  <2>3. \A t \in Trades : (Exists(t) => GoesOn(t)) /\ (Exists(t)' => Exists(t))
    BY DEF database, GoesOn, Exists, Row, IsInProgress
  <2>4. QED  BY <1>2, <2>1, <2>2, <2>3, OthersStayInOrder
<1>3. QED  BY <1>1, <1>2 DEF Inv, RequestsInOrder

LEMMA RefuseKeepsInv ==
    ASSUME Inv, NEW r \in Requests, Refuse(r)
    PROVE  Inv'
<1>1. TypeOK'
  BY RefuseKeepsType DEF Inv
<1>2. req'[r] = Idle /\ \A x \in Requests : x # r => req'[x] = req[x]
  BY DEF Refuse, Return, Inv, TypeOK
<1>3. \A x \in Requests, u \in Users : x # r /\ userLock[u] = x => userLock'[u] = x
  BY DEF Refuse, Return, Inv, TypeOK
<1>4. RequestInOrder(r)'
  BY <1>2 DEF RequestInOrder, NamesItsTrade, HoldsItsUsers, HoldsItsUser, ConsentStands, Serves, Idle
<1>5. QED
  BY <1>1, <1>2, <1>3, <1>4, QuietStep DEF Refuse

LEMMA BeginKeepsInv ==
    ASSUME Inv, NEW r \in Requests, NEW state \in RequestStates, Begin(r, state),
           RequestInOrder(r)'
    PROVE  Inv'
<1>1. TypeOK'
  BY BeginKeepsType DEF Inv
<1>2. \A x \in Requests : x # r => req'[x] = req[x]
  BY DEF Begin, Inv, TypeOK
<1>3. QED
  BY <1>1, <1>2, QuietStep DEF Begin

LEMMA TradeBeginsKeepInv ==
    ASSUME Inv, NEW r \in Requests, NEW u \in Users, NEW t \in Trades, BeginTrade(r, u, t)
    PROVE  Inv'
<1>1. ASSUME NEW state \in [pc: {"consent", "write"}, op: TradeOps, user: {u}, trade: {t}, note: BOOLEAN],
             Begin(r, state),
             Exists(t), IsParticipant(Row(t), u),
             state.pc = "write" => state.op \in {"withdraw", "decline", "fail", "complete"} /\ ~state.note
      PROVE  Inv'
  <2>1. state \in RequestStates
    BY DEF RequestStates, TradeRequests
  <2>2. req'[r] = state
    BY <1>1, <2>1 DEF Begin, Inv, TypeOK
  <2>3. RequestInOrder(r)'
    <3>1. NamesItsTrade(r)'
      BY <1>1, <2>2 DEF NamesItsTrade, Exists, Row, IsParticipant, Begin, database
    <3>2. HoldsItsUsers(r)' /\ HoldsItsUser(r)'
      BY <1>1, <2>2 DEF HoldsItsUsers, HoldsItsUser, Serves, TradeOps
    <3>3. ConsentStands(r)'
      BY <1>1, <2>2 DEF ConsentStands, Serves, RecordsWords
    <3>4. QED  BY <3>1, <3>2, <3>3 DEF RequestInOrder
  <2>4. QED  BY <1>1, <2>1, <2>3, BeginKeepsInv
<1> USE NotesAreChoices DEF TradeOps, CanView
<1>2. CASE ApproveTradeBegin(r, u, t)  BY <1>1, <1>2 DEF ApproveTradeBegin
<1>3. CASE \E note \in Notes : DeclineTradeBegin(r, u, t, note)  BY <1>1, <1>3 DEF DeclineTradeBegin
<1>4. CASE WithdrawTradeBegin(r, u, t)  BY <1>1, <1>4 DEF WithdrawTradeBegin
<1>5. CASE CancelTradeBegin(r, u, t)  BY <1>1, <1>5 DEF CancelTradeBegin
<1>6. CASE \E note \in Notes : FailTradeBegin(r, u, t, note)  BY <1>1, <1>6 DEF FailTradeBegin
<1>7. CASE \E note \in Notes : CompleteTradeBegin(r, u, t, note)  BY <1>1, <1>7 DEF CompleteTradeBegin
<1>8. CASE CreateTradeMessageBegin(r, u, t)  BY <1>1, <1>8 DEF CreateTradeMessageBegin
<1>9. QED  BY <1>2, <1>3, <1>4, <1>5, <1>6, <1>7, <1>8 DEF BeginTrade

LEMMA UserBeginsKeepInv ==
    ASSUME Inv, NEW r \in Requests, NEW u \in Users, BeginUser(r, u)
    PROVE  Inv'
<1>1. ASSUME NEW v \in Users, NEW note \in Notes, CreateTradeBegin(r, u, v, note)
      PROVE  Inv'
  <2> DEFINE state == [pc |-> "lock1", op |-> "propose", user |-> u, with |-> v, note |-> note]
  <2>1. state \in RequestStates /\ Begin(r, state) /\ u # v
    BY <1>1, NotesAreChoices DEF RequestStates, Proposals, CreateTradeBegin
  <2>2. req'[r] = state
    BY <2>1 DEF Begin, Inv, TypeOK
  <2>3. RequestInOrder(r)'
    BY <2>1, <2>2 DEF RequestInOrder, NamesItsTrade, HoldsItsUsers, HoldsItsUser, ConsentStands, Serves, TradeOps
  <2>4. QED  BY <2>1, <2>3, BeginKeepsInv
<1>2. ASSUME NEW state \in [pc: {"lock1", "write"}, op: UserOps, user: Users], Begin(r, state),
             state.pc = "write" => state.op = "agree"
      PROVE  Inv'
  <2>1. state \in RequestStates
    BY DEF RequestStates, UserRequests
  <2>2. req'[r] = state
    BY <1>2, <2>1 DEF Begin, Inv, TypeOK
  <2>3. RequestInOrder(r)'
    BY <1>2, <2>2 DEF RequestInOrder, NamesItsTrade, HoldsItsUsers, HoldsItsUser, ConsentStands, Serves, TradeOps, UserOps
  <2>4. QED  BY <1>2, <2>1, <2>3, BeginKeepsInv
<1>3. CASE WithdrawMessageConsentBegin(r, u)  BY <1>2, <1>3 DEF WithdrawMessageConsentBegin, UserOps
<1>4. CASE DeleteAccountBegin(r, u)  BY <1>2, <1>4 DEF DeleteAccountBegin, UserOps
<1>5. CASE CreateMessageConsentBegin(r, u)  BY <1>2, <1>5 DEF CreateMessageConsentBegin, UserOps
<1>6. QED  BY <1>1, <1>3, <1>4, <1>5 DEF BeginUser

LEMMA CheckConsentKeepsInv ==
    ASSUME Inv, NEW r \in Requests, CheckConsent(r)
    PROVE  Inv'
<1>1. CASE ~ConsentValid(req[r].user)
  BY <1>1, RefuseKeepsInv DEF CheckConsent
<1>2. CASE ConsentValid(req[r].user)
  <2>1. /\ req[r].pc = "consent"
        /\ req' = [req EXCEPT ![r].pc = "write"]
        /\ UNCHANGED database /\ UNCHANGED userLock
    BY <1>2 DEF CheckConsent, Proceed
  <2>2. req[r].op \in TradeOps \/ req[r].op = "propose"
    BY <2>1, FieldsOfRequest DEF Inv
  <2>3. [req[r] EXCEPT !.pc = "write"] \in RequestStates
    BY <2>1, <2>2, FieldsOfRequest DEF Inv
  <2>4. req'[r] = [req[r] EXCEPT !.pc = "write"] /\ \A x \in Requests : x # r => req'[x] = req[x]
    BY <2>1 DEF Inv, TypeOK
  <2>5. TypeOK'
    BY <2>1, <2>3, ProceedKeepsType DEF Inv, Proceed
  <2>6. /\ req'[r].pc = "write" /\ req'[r].op = req[r].op /\ req'[r].user = req[r].user
        /\ req[r].op \in TradeOps => req'[r].trade = req[r].trade /\ req'[r].note = req[r].note
        /\ req[r].op = "propose" => req'[r].with = req[r].with
    <3>1. (req[r].op \in TradeOps => req[r] \in TradeRequests) /\ (req[r].op = "propose" => req[r] \in Proposals)
      BY <2>1, FieldsOfRequest DEF Inv
    <3>2. QED  BY <2>2, <2>4, <3>1 DEF TradeRequests, Proposals, TradeOps
  <2>7. RequestInOrder(r)
    BY DEF Inv, RequestsInOrder
  <2>8. CASE req[r].op \in TradeOps
    <3>1. NamesItsTrade(r)'
      <4>1. Exists(req[r].trade) /\ IsParticipant(Row(req[r].trade), req[r].user)
        BY <2>1, <2>7, <2>8 DEF RequestInOrder, NamesItsTrade, Serves
      <4>2. trades' = trades /\ req'[r].trade = req[r].trade /\ req'[r].user = req[r].user
        BY <2>1, <2>6, <2>8 DEF database
      <4>3. QED  BY <4>1, <4>2 DEF NamesItsTrade, Exists, Row, IsParticipant
    <3>2. HoldsItsUsers(r)' /\ HoldsItsUser(r)'
      BY <2>6, <2>8 DEF HoldsItsUsers, HoldsItsUser, Serves, TradeOps
    <3>3. ConsentStands(r)'
      <4>1. consents' = consents /\ req'[r].user = req[r].user
        BY <2>1, <2>6 DEF database
      <4>2. ConsentValid(req[r].user)'
        BY <1>2, <4>1, <2>6 DEF ConsentValid
      <4>3. QED  BY <4>1, <4>2 DEF ConsentStands, ConsentValid
    <3>4. RequestInOrder(r)'
      BY <3>1, <3>2, <3>3 DEF RequestInOrder
    <3>5. QED  BY <2>1, <2>4, <2>5, <3>4, QuietStep
  <2>9. CASE req[r].op = "propose"
    <3>1. HoldsItsUsers(r)'
      BY <1>2, <2>1, <2>6, <2>7, <2>9 DEF RequestInOrder, HoldsItsUsers, Serves, ConsentValid, database, LockOrder
    <3>2. NamesItsTrade(r)' /\ HoldsItsUser(r)' /\ ConsentStands(r)'
      BY <2>6, <2>9 DEF NamesItsTrade, HoldsItsUser, ConsentStands, Serves, TradeOps
    <3>3. RequestInOrder(r)'
      BY <3>1, <3>2 DEF RequestInOrder
    <3>4. QED  BY <2>1, <2>4, <2>5, <3>3, QuietStep
  <2>10. QED  BY <2>2, <2>8, <2>9
<1>3. QED  BY <1>1, <1>2

\* A row of users is locked for a request, for which all is then in order.
LEMMA LockKeepsInv ==
    ASSUME Inv, NEW r \in Requests, NEW u \in Users, NEW next,
           [req[r] EXCEPT !.pc = next] \in RequestStates,
           LockUser(r, u, next),
           alive[u] => RequestInOrder(r)'
    PROVE  Inv'
<1>1. CASE ~alive[u]
  BY <1>1, RefuseKeepsInv DEF LockUser
<1>2. CASE alive[u]
  <2>1. TypeOK'
    BY LockKeepsType DEF Inv
  <2>2. UNCHANGED database /\ \A x \in Requests : x # r => req'[x] = req[x]
    BY <1>2 DEF LockUser, Proceed, Inv, TypeOK
  <2>3. \A x \in Requests, v \in Users : x # r /\ userLock[v] = x => userLock'[v] = x
    BY <1>2, NoRequestIsNoRequest DEF LockUser, Inv, TypeOK
  <2>4. QED  BY <1>2, <2>1, <2>2, <2>3, QuietStep
<1>3. QED  BY <1>1, <1>2

LEMMA ProposalLocksKeepInv ==
    ASSUME Inv, NEW r \in Requests, CreateTradeLockFirst(r) \/ CreateTradeLockSecond(r)
    PROVE  Inv'
<1> DEFINE p == req[r].user
           q == req[r].with
           one == LockOrder(p, q)[1]
           two == LockOrder(p, q)[2]
<1>1. /\ req[r].op = "propose" /\ req[r].pc \in {"lock1", "lock2"}
      /\ p \in Users /\ q \in Users
      /\ \A next \in {"lock2", "consent", "write"} : [req[r] EXCEPT !.pc = next] \in RequestStates
  BY FieldsOfRequest DEF Inv, CreateTradeLockFirst, CreateTradeLockSecond, At
<1>2. RequestInOrder(r)
  BY DEF Inv, RequestsInOrder
<1>3. p # q
  BY <1>1, <1>2 DEF RequestInOrder, HoldsItsUsers, Serves
<1>4. one \in Users /\ two \in Users /\ one # two
  BY <1>1, <1>3 DEF LockOrder
<1>5. req[r] \in Proposals
  BY <1>1, FieldsOfRequest DEF Inv
<1>6. CASE CreateTradeLockFirst(r)
  <2>1. req[r].pc = "lock1" /\ LockUser(r, one, "lock2")
    BY <1>6 DEF CreateTradeLockFirst, At
  <2>2. ASSUME alive[one] PROVE RequestInOrder(r)'
    <3>1. /\ req'[r] = [req[r] EXCEPT !.pc = "lock2"]
          /\ userLock' = [userLock EXCEPT ![one] = r]
          /\ UNCHANGED database
      BY <2>1, <2>2 DEF LockUser, Proceed, Inv, TypeOK
    <3>2. /\ req'[r].pc = "lock2" /\ req'[r].op = "propose"
          /\ req'[r].user = p /\ req'[r].with = q
      BY <1>5, <3>1 DEF Proposals
    <3>3. userLock'[one] = r
      BY <1>4, <3>1 DEF Inv, TypeOK
    <3>4. HoldsItsUsers(r)'
      BY <1>3, <2>2, <3>1, <3>2, <3>3 DEF HoldsItsUsers, LockOrder, database
    <3>5. NamesItsTrade(r)' /\ HoldsItsUser(r)' /\ ConsentStands(r)'
      BY <3>2 DEF NamesItsTrade, HoldsItsUser, ConsentStands, Serves, TradeOps
    <3>6. QED  BY <3>4, <3>5 DEF RequestInOrder
  <2>3. QED  BY <1>1, <1>4, <2>1, <2>2, LockKeepsInv
<1>7. CASE CreateTradeLockSecond(r)
  <2>1. req[r].pc = "lock2" /\ LockUser(r, two, "consent")
    BY <1>7 DEF CreateTradeLockSecond, At
  <2>2. userLock[one] = r /\ alive[one]
    BY <1>1, <1>2, <2>1 DEF RequestInOrder, HoldsItsUsers, Serves
  <2>3. ASSUME alive[two] PROVE RequestInOrder(r)'
    <3>1. /\ req'[r] = [req[r] EXCEPT !.pc = "consent"]
          /\ userLock' = [userLock EXCEPT ![two] = r]
          /\ UNCHANGED database
      BY <2>1, <2>3 DEF LockUser, Proceed, Inv, TypeOK
    <3>2. /\ req'[r].pc = "consent" /\ req'[r].op = "propose"
          /\ req'[r].user = p /\ req'[r].with = q
      BY <1>5, <3>1 DEF Proposals
    <3>3. userLock'[one] = r /\ userLock'[two] = r
      BY <1>4, <2>2, <3>1 DEF Inv, TypeOK
    <3>4. HoldsItsUsers(r)'
      BY <1>3, <2>2, <2>3, <3>1, <3>2, <3>3 DEF HoldsItsUsers, LockOrder, database
    <3>5. NamesItsTrade(r)' /\ HoldsItsUser(r)' /\ ConsentStands(r)'
      BY <3>2 DEF NamesItsTrade, HoldsItsUser, ConsentStands, Serves, TradeOps
    <3>6. QED  BY <3>4, <3>5 DEF RequestInOrder
  <2>4. QED  BY <1>1, <1>4, <2>1, <2>3, LockKeepsInv
<1>8. QED  BY <1>6, <1>7

LEMMA LeaverStepsKeepInv ==
    ASSUME Inv, NEW r \in Requests, LockOwnUser(r) \/ CheckNoTradeInProgress(r)
    PROVE  Inv'
<1> DEFINE u == req[r].user
<1>1. req[r].op \in {"revoke", "leave"} /\ req[r].pc \in {"lock1", "check"}
  BY DEF LockOwnUser, CheckNoTradeInProgress, At
<1>2. /\ u \in Users
      /\ \A next \in {"check", "write"} : [req[r] EXCEPT !.pc = next] \in RequestStates
  BY <1>1, FieldsOfRequest DEF Inv, UserOps
<1>3. req[r] \in UserRequests
  BY <1>1, FieldsOfRequest DEF Inv, UserOps
<1>4. ASSUME NEW next \in {"check", "write"}, req'[r] = [req[r] EXCEPT !.pc = next], UNCHANGED database,
             userLock'[u] = r, alive[u],
             next = "write" => ~ExistsInProgressTrade(u)
      PROVE  RequestInOrder(r)'
  <2>1. req'[r].pc = next /\ req'[r].op = req[r].op /\ req'[r].user = u
    BY <1>3, <1>4 DEF UserRequests
  <2>2. HoldsItsUser(r)'
    BY <1>4, <2>1 DEF HoldsItsUser, Serves, database, ExistsInProgressTrade, Exists, Row, IsParticipant, IsInProgress
  <2>3. NamesItsTrade(r)' /\ HoldsItsUsers(r)' /\ ConsentStands(r)'
    BY <1>1, <2>1 DEF NamesItsTrade, HoldsItsUsers, ConsentStands, Serves, TradeOps
  <2>4. QED  BY <2>2, <2>3 DEF RequestInOrder
<1>5. CASE LockOwnUser(r)
  <2>1. LockUser(r, u, "check")
    BY <1>5 DEF LockOwnUser
  <2>2. ASSUME alive[u] PROVE RequestInOrder(r)'
    <3>1. /\ req'[r] = [req[r] EXCEPT !.pc = "check"]
          /\ userLock'[u] = r
          /\ UNCHANGED database
      BY <1>2, <2>1, <2>2 DEF LockUser, Proceed, Inv, TypeOK
    <3>2. QED  BY <1>4, <2>2, <3>1
  <2>3. QED  BY <1>2, <2>1, <2>2, LockKeepsInv
<1>6. CASE CheckNoTradeInProgress(r)
  <2>1. CASE ExistsInProgressTrade(u)
    BY <1>6, <2>1, RefuseKeepsInv DEF CheckNoTradeInProgress
  <2>2. CASE ~ExistsInProgressTrade(u)
    <3>1. Proceed(r, "write") /\ UNCHANGED userLock /\ req[r].pc = "check"
      BY <1>6, <2>2 DEF CheckNoTradeInProgress, At
    <3>2. /\ req'[r] = [req[r] EXCEPT !.pc = "write"]
          /\ \A x \in Requests : x # r => req'[x] = req[x]
          /\ UNCHANGED database
      BY <3>1 DEF Proceed, Inv, TypeOK
    <3>3. userLock[u] = r /\ alive[u]
      BY <1>1, <3>1 DEF Inv, RequestsInOrder, RequestInOrder, HoldsItsUser, Serves
    <3>4. RequestInOrder(r)'
      BY <1>4, <2>2, <3>1, <3>2, <3>3
    <3>5. TypeOK'
      BY <1>2, <3>1, ProceedKeepsType DEF Inv
    <3>6. QED  BY <3>1, <3>2, <3>4, <3>5, QuietStep
  <2>3. QED  BY <2>1, <2>2
<1>7. QED  BY <1>5, <1>6



-----------------------------------------------------------------------------
(* The statements, on one row. *)

\* A statement that finds its row moves a trade in progress, keeps its users
\* and leaves presses and times that fit the new stage; "matched" is new only
\* when the receiver approves.
MovesTo(old, new) ==
    /\ new \in TradeRows
    /\ IsInProgress(old)
    /\ new.proposer = old.proposer /\ new.receiver = old.receiver
    /\ PressesFit(new) /\ TimesFit(new)

LEMMA StatementsMoveRows ==
    ASSUME NEW row \in TradeRows, NEW u \in Users,
           row.proposer # row.receiver, PressesFit(row), TimesFit(row)
    PROVE  /\ \A new \in {WithdrawTrade(row, u), DeclineTrade(row, u), FailTrade(row, u),
                          CancelTrade(row, u), CompleteTrade(row, u)} :
                 new # row => MovesTo(row, new) /\ (new.status = "matched" => row.status = "matched")
           /\ ApproveTrade(row, u) # row =>
                 MovesTo(row, ApproveTrade(row, u)) /\ u = row.receiver
<1> DEFINE Moves(new) ==
             new # row => MovesTo(row, new) /\ (new.status = "matched" => row.status = "matched")
<1>0. /\ \A new \in TradeRows : new.status \in Statuses
      /\ row.status \in Statuses
      /\ row.proposerCompleted \in BOOLEAN /\ row.receiverCompleted \in BOOLEAN
      /\ row.matchedAt \in BOOLEAN /\ row.endedAt \in BOOLEAN
  BY DEF TradeRows
<1>9. /\ WithdrawTrade(row, u) \in TradeRows /\ ApproveTrade(row, u) \in TradeRows
      /\ DeclineTrade(row, u) \in TradeRows /\ CompleteTrade(row, u) \in TradeRows
      /\ FailTrade(row, u) \in TradeRows /\ CancelTrade(row, u) \in TradeRows
  BY RowsStayRows
<1> USE <1>0, <1>9 DEF MovesTo, TradeRows, PressesFit, TimesFit, HasAnyCompleted, IsInProgress,
        InProgressStatuses, EndedStatuses
<1>1. Moves(WithdrawTrade(row, u))  BY DEF WithdrawTrade
<1>2. Moves(DeclineTrade(row, u))  BY DEF DeclineTrade
<1>3. Moves(FailTrade(row, u))  BY DEF FailTrade
<1>4. Moves(CancelTrade(row, u))  BY DEF CancelTrade
<1>5. Moves(CompleteTrade(row, u))
  <2> DEFINE new == CompleteTrade(row, u)
             found == /\ row.status = "matched"
                      /\ \/ row.proposer = u /\ ~row.proposerCompleted
                         \/ row.receiver = u /\ ~row.receiverCompleted
  <2>1. CASE ~found
    BY <2>1 DEF CompleteTrade
  <2>2. CASE found
    <3>1. /\ new.proposer = row.proposer /\ new.receiver = row.receiver
          /\ new.proposerCompleted <=> row.proposerCompleted \/ row.proposer = u
          /\ new.receiverCompleted <=> row.receiverCompleted \/ row.receiver = u
          /\ new.status = IF HasAnyCompleted(row) THEN "completed" ELSE "matched"
          /\ new.endedAt <=> row.endedAt \/ HasAnyCompleted(row)
          /\ new.matchedAt = row.matchedAt
      BY <2>2 DEF CompleteTrade
    <3>2. new \in TradeRows
      OBVIOUS
    <3> HIDE DEF new
    <3>3. ASSUME HasAnyCompleted(row) PROVE MovesTo(row, new) /\ new.status = "completed"
      BY <2>2, <3>1, <3>2, <3>3
    <3>4. ASSUME ~HasAnyCompleted(row) PROVE MovesTo(row, new)
      BY <2>2, <3>1, <3>2, <3>4
    <3>5. QED  BY <2>2, <3>3, <3>4 DEF new
  <2>3. QED  BY <2>1, <2>2
<1>6. ApproveTrade(row, u) # row => MovesTo(row, ApproveTrade(row, u)) /\ u = row.receiver
  BY DEF ApproveTrade
<1>7. QED  BY <1>1, <1>2, <1>3, <1>4, <1>5, <1>6

-----------------------------------------------------------------------------
(* The commits. *)

\* The answer is sent: r is idle again, the others stand as they stood.
LEMMA ReturnFrees ==
    ASSUME TypeOK, NEW r \in Requests, Return(r)
    PROVE  /\ \A x \in Requests : x # r => req'[x] = req[x]
           /\ \A x \in Requests, u \in Users : x # r /\ userLock[u] = x => userLock'[u] = x
           /\ RequestInOrder(r)'
<1>1. req'[r] = Idle /\ \A x \in Requests : x # r => req'[x] = req[x]
  BY DEF Return, TypeOK
<1>2. \A x \in Requests, u \in Users : x # r /\ userLock[u] = x => userLock'[u] = x
  BY DEF Return, TypeOK
<1>3. RequestInOrder(r)'
  BY <1>1 DEF RequestInOrder, NamesItsTrade, HoldsItsUsers, HoldsItsUser, ConsentStands, Serves, Idle
<1>4. QED  BY <1>1, <1>2, <1>3

LEMMA CommitKeepsInv ==
    ASSUME Inv, NEW r \in Requests, Return(r),
           TypeOK', TradesInOrder',
           \A u \in Users : alive[u] => alive'[u] \/ userLock[u] = r,
           \A u \in Users : ConsentValid(u) =>
               ConsentValid(u)' \/ (userLock[u] = r /\ ~ExistsInProgressTrade(u)),
           \A t \in Trades : Exists(t) => GoesOn(t),
           \A t \in Trades : ~Exists(t) /\ Exists(t)' =>
               /\ userLock[Row(t)'.proposer] = r
               /\ userLock[Row(t)'.receiver] = r
    PROVE  Inv'
<1>1. ASSUME NEW x \in Requests PROVE RequestInOrder(x)'
  <2>1. CASE x = r
    BY <2>1, ReturnFrees DEF Inv
  <2>2. CASE x # r
    BY <2>2, ReturnFrees, OthersStayInOrder DEF Inv
  <2>3. QED  BY <2>1, <2>2
<1>2. QED  BY <1>1 DEF Inv, RequestsInOrder

\* An existing row and its users, by Inv.
LEMMA RowInOrder ==
    ASSUME Inv, NEW t \in Trades, Exists(t)
    PROVE  /\ Row(t) \in TradeRows
           /\ Row(t).proposer \in Users /\ Row(t).receiver \in Users
           /\ Row(t).proposer # Row(t).receiver
           /\ IsInProgress(Row(t)) =>
                /\ alive[Row(t).proposer] /\ alive[Row(t).receiver]
                /\ ConsentValid(Row(t).proposer)
           /\ Row(t).status = "matched" => ConsentValid(Row(t).receiver)
           /\ PressesFit(Row(t)) /\ TimesFit(Row(t))
<1>1. Row(t) \in TradeRows
  BY DEF Inv, TypeOK, Exists, Row
<1>2. Row(t).proposer \in Users /\ Row(t).receiver \in Users
  BY <1>1 DEF TradeRows
<1>3. QED
  BY <1>1, <1>2 DEF Inv, TradesInOrder, PartnersDiffer, TradersAreMembers, TradersConsent,
                    PressesDecide, TimesFollowStage

LEMMA RecordKeepsInv ==
    ASSUME Inv, NEW r \in Requests, req[r].pc = "write", req[r].op \in TradeOps,
           NEW updated, NEW kind \in EventKinds,
           updated # Row(req[r].trade) => MovesTo(Row(req[r].trade), updated),
           updated # Row(req[r].trade) /\ updated.status = "matched" =>
               Row(req[r].trade).status = "matched" \/ ConsentValid(Row(req[r].trade).receiver),
           Record(r, updated, kind)
    PROVE  Inv'
<1> DEFINE t == req[r].trade
<1>1. req[r].user \in Users /\ t \in Trades /\ req[r].note \in BOOLEAN
  BY FieldsOfRequest DEF Inv
<1>2. CASE updated = Row(t)
  BY <1>2, RefuseKeepsInv DEF Record
<1>3. CASE updated # Row(t)
  <2>1. /\ trades' = [trades EXCEPT ![t] = updated]
        /\ alive' = alive /\ consents' = consents
        /\ Return(r)
    BY <1>3 DEF Record
  <2>2. MovesTo(Row(t), updated) /\ updated \in TradeRows
    BY <1>3 DEF MovesTo
  <2>3. TypeOK'
    BY <1>1, <2>2, RecordKeepsType DEF Inv
  <2>4. Exists(t)
    BY <1>1 DEF Inv, RequestsInOrder, RequestInOrder, NamesItsTrade, Serves
  <2>5. /\ trades'[t] = updated
        /\ \A x \in Trades : x # t => trades'[x] = trades[x]
    BY <1>1, <2>1 DEF Inv, TypeOK
  <2>6. \A x \in Trades : Exists(x)' <=> Exists(x)
    BY <2>2, <2>4, <2>5, NoTradeIsNoRow DEF Exists
  <2>7. ASSUME NEW x \in Trades, Exists(x) PROVE GoesOn(x)
    <3>1. CASE x = t
      BY <2>2, <2>5, <2>6, <2>7, <3>1 DEF GoesOn, MovesTo, Row
    <3>2. CASE x # t
      BY <2>5, <2>6, <2>7, <3>2 DEF GoesOn, Row, IsInProgress
    <3>3. QED  BY <3>1, <3>2
  <2>8. ASSUME NEW x \in Trades, Exists(x)'
        PROVE  /\ Row(x)'.proposer # Row(x)'.receiver
               /\ IsInProgress(Row(x))' => alive'[Row(x)'.proposer] /\ alive'[Row(x)'.receiver]
               /\ IsInProgress(Row(x))' => ConsentValid(Row(x).proposer)'
               /\ Row(x)'.status = "matched" => ConsentValid(Row(x).receiver)'
               /\ PressesFit(Row(x))' /\ TimesFit(Row(x))'
    <3>1. Exists(x)
      BY <2>6, <2>8
    <3>2. CASE x = t
      BY <1>3, <2>1, <2>2, <2>5, <2>7, <3>1, <3>2, RowInOrder
         DEF MovesTo, GoesOn, Row, ConsentValid, IsInProgress, PressesFit, TimesFit, HasAnyCompleted
    <3>3. CASE x # t
      BY <2>1, <2>5, <3>1, <3>3, RowInOrder
         DEF Row, ConsentValid, IsInProgress, PressesFit, TimesFit, HasAnyCompleted
    <3>4. QED  BY <3>2, <3>3
  <2>9. TradesInOrder'
    BY <2>8 DEF TradesInOrder, PartnersDiffer, TradersAreMembers, TradersConsent, PressesDecide, TimesFollowStage
  <2>10. \A u \in Users : ConsentValid(u) => ConsentValid(u)'
    BY <2>1 DEF ConsentValid
  <2>11. QED  BY <2>1, <2>3, <2>6, <2>7, <2>9, <2>10, CommitKeepsInv
<1>4. QED  BY <1>2, <1>3

LEMMA TradeCommitsKeepInv ==
    ASSUME Inv, NEW r \in Requests,
           \/ ApproveTradeCommit(r) \/ DeclineTradeCommit(r) \/ WithdrawTradeCommit(r)
           \/ CancelTradeCommit(r) \/ FailTradeCommit(r) \/ CompleteTradeCommit(r)
    PROVE  Inv'
<1> DEFINE t == req[r].trade
           u == req[r].user
<1>1. req[r].pc = "write" /\ req[r].op \in TradeOps
  BY DEF ApproveTradeCommit, DeclineTradeCommit, WithdrawTradeCommit, CancelTradeCommit,
         FailTradeCommit, CompleteTradeCommit, At, TradeOps
<1>2. t \in Trades /\ u \in Users
  BY <1>1, FieldsOfRequest DEF Inv
<1>3. Exists(t) /\ RequestInOrder(r)
  BY <1>1 DEF Inv, RequestsInOrder, RequestInOrder, NamesItsTrade, Serves
<1>4. /\ \A new \in {WithdrawTrade(Row(t), u), DeclineTrade(Row(t), u), FailTrade(Row(t), u),
                     CancelTrade(Row(t), u), CompleteTrade(Row(t), u)} :
            new # Row(t) => MovesTo(Row(t), new) /\ (new.status = "matched" => Row(t).status = "matched")
      /\ ApproveTrade(Row(t), u) # Row(t) =>
            MovesTo(Row(t), ApproveTrade(Row(t), u)) /\ u = Row(t).receiver
  <2>1. /\ Row(t) \in TradeRows /\ Row(t).proposer # Row(t).receiver
        /\ PressesFit(Row(t)) /\ TimesFit(Row(t))
    BY <1>2, <1>3, RowInOrder
  <2>2. QED  BY <1>2, <2>1, StatementsMoveRows
<1>5. CASE ApproveTradeCommit(r)
  <2>1. req[r].op = "approve" /\ Record(r, ApproveTrade(Row(t), u), "approved")
    BY <1>5 DEF ApproveTradeCommit, At
  <2>2. ApproveTrade(Row(t), u) # Row(t) => ConsentValid(Row(t).receiver)
    BY <1>1, <1>3, <1>4, <2>1 DEF RequestInOrder, ConsentStands, Serves, RecordsWords, MovesTo
  <2>3. "approved" \in EventKinds
    BY DEF EventKinds
  <2>4. QED  BY <1>1, <1>4, <2>1, <2>2, <2>3, RecordKeepsInv
<1>6. ASSUME NEW new \in {WithdrawTrade(Row(t), u), DeclineTrade(Row(t), u), FailTrade(Row(t), u),
                          CancelTrade(Row(t), u), CompleteTrade(Row(t), u)},
             NEW kind \in EventKinds,
             Record(r, new, kind)
      PROVE  Inv'
  BY <1>1, <1>4, <1>6, RecordKeepsInv
<1>7. CASE DeclineTradeCommit(r)
  BY <1>6, <1>7 DEF DeclineTradeCommit, EventKinds
<1>8. CASE WithdrawTradeCommit(r)
  BY <1>6, <1>8 DEF WithdrawTradeCommit, EventKinds
<1>9. CASE CancelTradeCommit(r)
  BY <1>6, <1>9 DEF CancelTradeCommit, EventKinds
<1>10. CASE FailTradeCommit(r)
  BY <1>6, <1>10 DEF FailTradeCommit, EventKinds
<1>11. CASE CompleteTradeCommit(r)
  BY <1>6, <1>11 DEF CompleteTradeCommit, EventKinds
<1>12. QED  BY <1>5, <1>7, <1>8, <1>9, <1>10, <1>11

\* A commit that leaves the rows of trades alone.
LEMMA UserCommitKeepsInv ==
    ASSUME Inv, NEW r \in Requests, Return(r), TypeOK', trades' = trades,
           \A u \in Users : alive[u] =>
               alive'[u] \/ (userLock[u] = r /\ ~ExistsInProgressTrade(u)),
           \A u \in Users : ConsentValid(u) =>
               ConsentValid(u)' \/ (userLock[u] = r /\ ~ExistsInProgressTrade(u))
    PROVE  Inv'
<1>1. \A t \in Trades : (Exists(t) => GoesOn(t)) /\ (Exists(t)' => Exists(t))
  BY DEF GoesOn, Exists, Row, IsInProgress
<1>2. ASSUME NEW t \in Trades, Exists(t)
      PROVE  /\ Row(t).proposer # Row(t).receiver
             /\ IsInProgress(Row(t)) => alive'[Row(t).proposer] /\ alive'[Row(t).receiver]
             /\ IsInProgress(Row(t)) => ConsentValid(Row(t).proposer)'
             /\ Row(t).status = "matched" => ConsentValid(Row(t).receiver)'
             /\ PressesFit(Row(t)) /\ TimesFit(Row(t))
  <2>1. IsInProgress(Row(t)) => ExistsInProgressTrade(Row(t).proposer) /\ ExistsInProgressTrade(Row(t).receiver)
    BY <1>2 DEF ExistsInProgressTrade, IsParticipant
  <2>2. Row(t).status = "matched" => IsInProgress(Row(t))
    BY DEF IsInProgress, InProgressStatuses
  <2>3. /\ Row(t).proposer' = Row(t).proposer /\ Row(t).receiver' = Row(t).receiver
    BY DEF Row
  <2>4. \A u \in {Row(t).proposer, Row(t).receiver} :
            IsInProgress(Row(t)) => alive'[u] = alive'[u] /\ (alive[u] => alive'[u])
                                    /\ (ConsentValid(u) => ConsentValid(u)')
    BY <1>2, <2>1, RowInOrder
  <2>5. QED  BY <1>2, <2>2, <2>3, <2>4, RowInOrder DEF ConsentValid
<1>3. TradesInOrder'
  BY <1>1, <1>2 DEF TradesInOrder, PartnersDiffer, TradersAreMembers, TradersConsent, PressesDecide,
     TimesFollowStage, Row, IsInProgress, PressesFit, TimesFit, HasAnyCompleted, ConsentValid
<1>4. QED  BY <1>1, <1>3, CommitKeepsInv

LEMMA MessageCommitKeepsInv ==
    ASSUME Inv, NEW r \in Requests, CreateTradeMessageCommit(r)
    PROVE  Inv'
<1>1. req[r].trade \in Trades /\ req[r].user \in Users
  BY FieldsOfRequest DEF Inv, CreateTradeMessageCommit, At, TradeOps
<1>2. CASE ~IsInProgress(Row(req[r].trade))
  BY <1>2, RefuseKeepsInv DEF CreateTradeMessageCommit
<1>3. CASE IsInProgress(Row(req[r].trade))
  <2>1. /\ messages' = Said(req[r].trade, req[r].user, TRUE)
        /\ Return(r)
        /\ UNCHANGED <<alive, consents, trades, events>>
    BY <1>3 DEF CreateTradeMessageCommit
  <2>2. messages' \in [Trades -> [Users -> Nat]]
    BY <1>1, <2>1, SaidKeepsType DEF Inv
  <2>3. TypeOK'
    BY <2>1, <2>2, ReturnKeepsType DEF Inv, TypeOK
  <2>4. \A u \in Users : ConsentValid(u) => ConsentValid(u)'
    BY <2>1 DEF ConsentValid
  <2>5. QED  BY <2>1, <2>3, <2>4, UserCommitKeepsInv
<1>4. QED  BY <1>2, <1>3

LEMMA UserCommitsKeepInv ==
    ASSUME Inv, NEW r \in Requests,
           \/ WithdrawMessageConsentCommit(r) \/ CreateMessageConsentCommit(r) \/ DeleteAccountCommit(r)
    PROVE  Inv'
<1> DEFINE u == req[r].user
           Rows == Seq({"given", "withdrawn"})
<1>1. req[r].pc = "write" /\ req[r].op \in UserOps /\ u \in Users
  BY FieldsOfRequest DEF Inv, WithdrawMessageConsentCommit, CreateMessageConsentCommit, DeleteAccountCommit,
     At, UserOps
<1>2. req[r].op \in {"revoke", "leave"} => userLock[u] = r /\ ~ExistsInProgressTrade(u)
  BY <1>1 DEF Inv, RequestsInOrder, RequestInOrder, HoldsItsUser, Serves
<1>3. consents \in [Users -> Rows] /\ consents[u] \in Rows
  BY <1>1 DEF Inv, TypeOK
<1>4. ASSUME NEW rows \in Rows, consents' = [consents EXCEPT ![u] = rows]
      PROVE  /\ consents' \in [Users -> Rows]
             /\ consents'[u] = rows
             /\ \A v \in Users : v # u => consents'[v] = consents[v]
  <2> HIDE DEF Rows
  <2>1. QED  BY <1>1, <1>3, <1>4
<1>5. CASE WithdrawMessageConsentCommit(r)
  <2>1. CASE Refuse(r)
    BY <2>1, RefuseKeepsInv
  <2>2. CASE ~Refuse(r)
    <3> DEFINE rows == [i \in 1..Len(consents[u]) |-> "withdrawn"]
    <3>1. /\ consents' = [consents EXCEPT ![u] = rows]
          /\ Return(r)
          /\ UNCHANGED <<alive, trades, events, messages>>
      BY <1>5, <2>2 DEF WithdrawMessageConsentCommit
    <3>2. rows \in Rows
      BY <1>3
    <3>3. consents' \in [Users -> Rows] /\ \A v \in Users : v # u => consents'[v] = consents[v]
      BY <1>4, <3>1, <3>2
    <3>4. TypeOK'
      BY <3>1, <3>3, ReturnKeepsType DEF Inv, TypeOK
    <3>5. \A v \in Users : ConsentValid(v) => ConsentValid(v)' \/ v = u
      BY <3>3 DEF ConsentValid
    <3>6. req[r].op = "revoke"
      BY <1>5 DEF WithdrawMessageConsentCommit, At
    <3>7. QED  BY <1>2, <3>1, <3>4, <3>5, <3>6, UserCommitKeepsInv
  <2>3. QED  BY <2>1, <2>2
<1>6. CASE CreateMessageConsentCommit(r)
  <2> DEFINE rows == Append(consents[u], "given")
  <2>1. /\ consents' = [consents EXCEPT ![u] = rows]
        /\ Return(r)
        /\ UNCHANGED <<alive, trades, events, messages>>
    BY <1>6 DEF CreateMessageConsentCommit
  <2>2. rows \in Rows /\ rows # << >> /\ rows[Len(rows)] = "given"
    BY <1>3, SMTT(30)
  <2>3. /\ consents' \in [Users -> Rows]
        /\ consents'[u] = rows
        /\ \A v \in Users : v # u => consents'[v] = consents[v]
    BY <1>4, <2>1, <2>2
  <2>4. TypeOK'
    BY <2>1, <2>3, ReturnKeepsType DEF Inv, TypeOK
  <2>5. \A v \in Users : ConsentValid(v) => ConsentValid(v)'
    BY <2>2, <2>3 DEF ConsentValid
  <2>6. QED  BY <2>1, <2>4, <2>5, UserCommitKeepsInv
<1>7. CASE DeleteAccountCommit(r)
  <2>1. /\ alive' = [alive EXCEPT ![u] = FALSE]
        /\ Return(r) /\ req[r].op = "leave"
        /\ UNCHANGED <<consents, trades, events, messages>>
    BY <1>7 DEF DeleteAccountCommit, At
  <2>2. TypeOK'
    BY <1>1, <2>1, ReturnKeepsType DEF Inv, TypeOK
  <2>3. \A v \in Users : ConsentValid(v) => ConsentValid(v)'
    BY <2>1 DEF ConsentValid
  <2>4. \A v \in Users : alive[v] => alive'[v] \/ v = u
    BY <1>1, <2>1 DEF Inv, TypeOK
  <2>5. QED  BY <1>2, <2>1, <2>2, <2>3, <2>4, UserCommitKeepsInv
<1>8. QED  BY <1>5, <1>6, <1>7

LEMMA CreateTradeCommitKeepsInv ==
    ASSUME Inv, NEW r \in Requests, NEW t \in Trades, CreateTradeCommit(r, t)
    PROVE  Inv'
<1> DEFINE p == req[r].user
           q == req[r].with
           row == CreateTrade(p, q)
           Histories == Seq([kind: EventKinds, actor: Users])
<1>1. /\ req[r].pc = "write" /\ req[r].op = "propose"
      /\ p \in Users /\ q \in Users /\ req[r].note \in BOOLEAN
  BY FieldsOfRequest DEF Inv, CreateTradeCommit, At
<1>2. /\ p # q
      /\ userLock[p] = r /\ userLock[q] = r
      /\ alive[p] /\ alive[q]
      /\ ConsentValid(p)
  BY <1>1 DEF Inv, RequestsInOrder, RequestInOrder, HoldsItsUsers, Serves, LockOrder
<1>3. /\ ~Exists(t)
      /\ trades' = [trades EXCEPT ![t] = row]
      /\ events' = [events EXCEPT ![t] = <<[kind |-> "proposed", actor |-> p]>>]
      /\ messages' = Said(t, p, req[r].note)
      /\ Return(r)
      /\ alive' = alive /\ consents' = consents
  BY DEF CreateTradeCommit
<1>4. row \in TradeRows
  BY <1>1, NewRowIsARow
<1>5. /\ trades' \in [Trades -> TradeRows \cup {NoTrade}]
      /\ trades'[t] = row
      /\ \A x \in Trades : x # t => trades'[x] = trades[x]
  BY <1>3, <1>4 DEF Inv, TypeOK
<1>6. TypeOK'
  <2>1. events' \in [Trades -> Histories]
    <3>1. <<[kind |-> "proposed", actor |-> p]>> \in Histories
      BY <1>1 DEF EventKinds
    <3>2. events \in [Trades -> Histories]
      BY DEF Inv, TypeOK
    <3> HIDE DEF Histories
    <3>3. QED  BY <1>3, <3>1, <3>2
  <2>2. messages' \in [Trades -> [Users -> Nat]]
    BY <1>1, <1>3, SaidKeepsType DEF Inv
  <2>3. QED  BY <1>3, <1>5, <2>1, <2>2, ReturnKeepsType DEF Inv, TypeOK
<1>7. /\ row.proposer = p /\ row.receiver = q /\ row.status = "pending"
      /\ PressesFit(row) /\ TimesFit(row)
  BY DEF CreateTrade, PressesFit, TimesFit, HasAnyCompleted, EndedStatuses
<1>8. \A u \in Users : ConsentValid(u) => ConsentValid(u)'
  BY <1>3 DEF ConsentValid
<1>9. /\ \A x \in Trades : Exists(x) => x # t /\ GoesOn(x)
      /\ \A x \in Trades : ~Exists(x) /\ Exists(x)' => x = t
  BY <1>3, <1>5 DEF GoesOn, Exists, Row, IsInProgress
<1>10. ASSUME NEW x \in Trades, Exists(x)'
       PROVE  /\ Row(x)'.proposer # Row(x)'.receiver
              /\ IsInProgress(Row(x))' => alive'[Row(x)'.proposer] /\ alive'[Row(x)'.receiver]
              /\ IsInProgress(Row(x))' => ConsentValid(Row(x).proposer)'
              /\ Row(x)'.status = "matched" => ConsentValid(Row(x).receiver)'
              /\ PressesFit(Row(x))' /\ TimesFit(Row(x))'
  <2> HIDE DEF row
  <2>1. CASE x = t
    <3>1. Row(x)' = row
      BY <1>5, <2>1 DEF Row
    <3>2. ConsentValid(Row(x).proposer)'
      BY <1>1, <1>2, <1>3, <1>7, <3>1 DEF ConsentValid
    <3>3. PressesFit(Row(x))' /\ TimesFit(Row(x))'
      BY <1>7, <3>1 DEF PressesFit, TimesFit, HasAnyCompleted
    <3>4. QED  BY <1>2, <1>3, <1>7, <3>1, <3>2, <3>3
  <2>2. CASE x # t
    <3>1. Exists(x) /\ Row(x)' = Row(x)
      BY <1>5, <1>10, <2>2 DEF Exists, Row
    <3>2. QED
      BY <1>3, <3>1, RowInOrder DEF ConsentValid, IsInProgress, PressesFit, TimesFit, HasAnyCompleted
  <2>3. QED  BY <2>1, <2>2
<1>11. TradesInOrder'
  BY <1>10 DEF TradesInOrder, PartnersDiffer, TradersAreMembers, TradersConsent, PressesDecide, TimesFollowStage
<1>12. \A x \in Trades : ~Exists(x) /\ Exists(x)' =>
          userLock[Row(x)'.proposer] = r /\ userLock[Row(x)'.receiver] = r
  BY <1>2, <1>5, <1>7, <1>9 DEF Row
<1>13. QED  BY <1>3, <1>6, <1>8, <1>9, <1>11, <1>12, CommitKeepsInv

-----------------------------------------------------------------------------
(* The invariant. *)

LEMMA InitInv == Init => Inv
<1> SUFFICES ASSUME Init PROVE Inv
  OBVIOUS
<1>1. TypeOK
  BY InitTypes
<1>2. \A t \in Trades : ~Exists(t)
  BY DEF Init, Exists
<1>3. TradesInOrder
  BY <1>2 DEF TradesInOrder, PartnersDiffer, TradersAreMembers, TradersConsent, PressesDecide, TimesFollowStage
<1>4. RequestsInOrder
  BY DEF Init, RequestsInOrder, RequestInOrder, NamesItsTrade, HoldsItsUsers, HoldsItsUser, ConsentStands,
     Serves, Idle
<1>5. QED  BY <1>1, <1>3, <1>4 DEF Inv

LEMMA StutterKeepsInv ==
    ASSUME Inv, UNCHANGED vars
    PROVE  Inv'
<1>1. UNCHANGED database /\ UNCHANGED userLock /\ UNCHANGED req
  BY DEF vars
<1>2. TypeOK'
  BY <1>1 DEF Inv, TypeOK, database
<1>3. TradesInOrder'
  BY <1>1 DEF Inv, TradesInOrder, PartnersDiffer, TradersAreMembers, TradersConsent, PressesDecide,
              TimesFollowStage, Exists, Row, IsInProgress, ConsentValid, database, PressesFit, TimesFit,
              HasAnyCompleted
<1>4. ASSUME NEW x \in Requests PROVE RequestInOrder(x)'
  <2>1. RequestInOrder(x)
    BY DEF Inv, RequestsInOrder
  <2>2. NamesItsTrade(x)' /\ ConsentStands(x)'
    BY <1>1, <2>1 DEF RequestInOrder, NamesItsTrade, ConsentStands, Serves, RecordsWords, Exists, Row,
       IsParticipant, IsInProgress, ConsentValid, database
  <2>3. HoldsItsUsers(x)'
    BY <1>1, <2>1 DEF RequestInOrder, HoldsItsUsers, Serves, LockOrder, ConsentValid, database
  <2>4. HoldsItsUser(x)'
    BY <1>1, <2>1 DEF RequestInOrder, HoldsItsUser, Serves, ExistsInProgressTrade, Exists, Row,
       IsParticipant, IsInProgress, database
  <2>5. QED  BY <2>2, <2>3, <2>4 DEF RequestInOrder
<1>5. QED  BY <1>2, <1>3, <1>4 DEF Inv, RequestsInOrder

LEMMA NextKeepsInv ==
    ASSUME Inv, [Next]_vars
    PROVE  Inv'
<1>1. CASE UNCHANGED vars
  BY <1>1, StutterKeepsInv
<1>2. ASSUME NEW r \in Requests, NEW u \in Users, NEW t \in Trades, BeginTrade(r, u, t)
      PROVE  Inv'
  BY <1>2, TradeBeginsKeepInv
<1>3. ASSUME NEW r \in Requests, NEW u \in Users, BeginUser(r, u)
      PROVE  Inv'
  BY <1>3, UserBeginsKeepInv
<1>4. ASSUME NEW r \in Requests, Continue(r)
      PROVE  Inv'
  <2>1. CASE CheckConsent(r)
    BY <2>1, CheckConsentKeepsInv
  <2>2. CASE CreateTradeLockFirst(r) \/ CreateTradeLockSecond(r)
    BY <2>2, ProposalLocksKeepInv
  <2>3. CASE LockOwnUser(r) \/ CheckNoTradeInProgress(r)
    BY <2>3, LeaverStepsKeepInv
  <2>4. CASE \/ ApproveTradeCommit(r) \/ DeclineTradeCommit(r) \/ WithdrawTradeCommit(r)
             \/ CancelTradeCommit(r) \/ FailTradeCommit(r) \/ CompleteTradeCommit(r)
    BY <2>4, TradeCommitsKeepInv
  <2>5. CASE CreateTradeMessageCommit(r)
    BY <2>5, MessageCommitKeepsInv
  <2>6. CASE \E t \in Trades : CreateTradeCommit(r, t)
    BY <2>6, CreateTradeCommitKeepsInv
  <2>7. CASE \/ WithdrawMessageConsentCommit(r) \/ CreateMessageConsentCommit(r) \/ DeleteAccountCommit(r)
    BY <2>7, UserCommitsKeepInv
  <2>8. QED  BY <1>4, <2>1, <2>2, <2>3, <2>4, <2>5, <2>6, <2>7 DEF Continue
<1>5. ASSUME NEW r \in Requests, Abort(r)
      PROVE  Inv'
  BY <1>5, RefuseKeepsInv DEF Abort
<1>6. QED  BY <1>1, <1>2, <1>3, <1>4, <1>5 DEF Next

\* Everything the conditions and locks are for is true of every reachable
\* state, of any number of users, trades and requests.
THEOREM InvHolds == Spec => []Inv
<1>1. Init => Inv
  BY InitInv
<1>2. Inv /\ [Next]_vars => Inv'
  BY NextKeepsInv
<1>3. QED  BY <1>1, <1>2, PTL DEF Spec

\* The model's types.
THEOREM TypesHold == Spec => []TypeOK
<1>1. Inv => TypeOK
  BY DEF Inv
<1>2. QED  BY <1>1, InvHolds, PTL

\* CreateTrade's locks on both users, and the lock DeleteAccount looks for
\* trades under, keep the users of a trade in progress in the service.
THEOREM TradersStayMembers == Spec => []TradersAreMembers
<1>1. Inv => TradersAreMembers
  BY DEF Inv, TradesInOrder
<1>2. QED  BY <1>1, InvHolds, PTL

\* No consent is withdrawn under a trade in progress, although approvals
\* read it before they open their transaction.
THEOREM TradersKeepConsent == Spec => []TradersConsent
<1>1. Inv => TradersConsent
  BY DEF Inv, TradesInOrder
<1>2. QED  BY <1>1, InvHolds, PTL

\* A trade is completed exactly when both have pressed, however the two
\* presses, a failure and a cancellation meet.
THEOREM PressesDecideTrades == Spec => []PressesDecide
<1>1. Inv => PressesDecide
  BY DEF Inv, TradesInOrder
<1>2. QED  BY <1>1, InvHolds, PTL

\* The times of a row agree with its stage.
THEOREM TimesAgree == Spec => []TimesFollowStage
<1>1. Inv => TimesFollowStage
  BY DEF Inv, TradesInOrder
<1>2. QED  BY <1>1, InvHolds, PTL

\* The badge query and the trade page, written apart, agree on whose turn it
\* is in every row that can be reached.
THEOREM BadgesAgree == Spec => []BadgeCountsTurns
<1>1. ASSUME Inv, NEW t \in Trades, NEW u \in Users, Exists(t)
      PROVE  IsAwaiting(Row(t), u) <=> CountedAsAwaiting(Row(t), u)
  <2>1. Row(t) \in TradeRows /\ Row(t).proposer # Row(t).receiver
    BY <1>1 DEF Inv, TypeOK, TradesInOrder, PartnersDiffer, Row, Exists
  <2>2. Row(t).status \in {"pending", "matched"} \/ Row(t).status \notin {"pending", "matched"}
    OBVIOUS
  <2>3. QED  BY <2>1, <2>2 DEF IsAwaiting, CountedAsAwaiting, TradeRows
<1>2. Inv => BadgeCountsTurns
  BY <1>1 DEF BadgeCountsTurns
<1>3. QED  BY <1>2, InvHolds, PTL

-----------------------------------------------------------------------------
(* What a step may never do. *)

\* Adding what a user said touches that user's count in that trade only.
LEMMA SaidTouchesOne ==
    ASSUME TypeOK, NEW t \in Trades, NEW u \in Users, NEW note
    PROVE  /\ \A x \in Trades : x # t => Said(t, u, note)[x] = messages[x]
           /\ \A x \in Trades, v \in Users :
                 Said(t, u, note)[x][v] # messages[x][v] => x = t /\ v = u /\ note
<1> DEFINE row == [messages[t] EXCEPT ![u] = @ + 1]
<1>1. messages \in [Trades -> [Users -> Nat]]
  BY DEF TypeOK
<1>2. \A v \in Users : v # u => row[v] = messages[t][v]
  BY <1>1
<1>3. CASE ~note
  BY <1>3 DEF Said
<1>4. CASE note
  <2>1. Said(t, u, note) = [messages EXCEPT ![t] = row]
    BY <1>4 DEF Said
  <2> HIDE DEF row
  <2>2. Said(t, u, note)[t] = row /\ \A x \in Trades : x # t => Said(t, u, note)[x] = messages[x]
    BY <1>1, <2>1
  <2>3. QED  BY <1>2, <1>4, <2>2
<1>5. QED  BY <1>3, <1>4

\* The rows of trades, events and messages change at one trade, which is in
\* progress or new, and words only with a standing consent of their user.
LEMMA ChangesAreAllowed ==
    ASSUME Inv, NEW r \in Requests, Continue(r)
    PROVE  \/ UNCHANGED <<trades, events, messages>>
           \/ \E t \in Trades, u \in Users, note \in BOOLEAN :
                 /\ Exists(t) => IsInProgress(Row(t))
                 /\ \A x \in Trades : x # t => trades'[x] = trades[x] /\ events'[x] = events[x]
                 /\ messages' = Said(t, u, note)
                 /\ note => ConsentValid(u)
<1>0. TypeOK /\ RequestInOrder(r)
  BY DEF Inv, RequestsInOrder
<1>1. CASE UNCHANGED database
  BY <1>1 DEF database
<1>2. CASE \/ CheckConsent(r) \/ CreateTradeLockFirst(r) \/ CreateTradeLockSecond(r)
           \/ LockOwnUser(r) \/ CheckNoTradeInProgress(r)
  BY <1>1, <1>2 DEF CheckConsent, CreateTradeLockFirst, CreateTradeLockSecond, LockOwnUser,
     CheckNoTradeInProgress, LockUser, Refuse, Proceed
<1>3. CASE \/ WithdrawMessageConsentCommit(r) \/ CreateMessageConsentCommit(r) \/ DeleteAccountCommit(r)
  BY <1>1, <1>3 DEF WithdrawMessageConsentCommit, CreateMessageConsentCommit, DeleteAccountCommit, Refuse
<1>4. CASE CreateTradeMessageCommit(r)
  <2> DEFINE t == req[r].trade
             u == req[r].user
  <2>1. CASE Refuse(r)
    BY <1>1, <2>1 DEF Refuse
  <2>2. CASE ~Refuse(r)
    <3>1. /\ req[r].pc = "write" /\ req[r].op = "message" /\ IsInProgress(Row(t))
          /\ messages' = Said(t, u, TRUE)
          /\ trades' = trades /\ events' = events
      BY <1>4, <2>2 DEF CreateTradeMessageCommit, At
    <3>2. t \in Trades /\ u \in Users
      BY <1>0, <3>1, FieldsOfRequest DEF TradeOps
    <3>3. ConsentValid(u)
      BY <1>0, <3>1 DEF RequestInOrder, ConsentStands, Serves, RecordsWords, TradeOps
    <3>4. QED  BY <3>1, <3>2, <3>3
  <2>3. QED  BY <2>1, <2>2
<1>5. CASE \E t \in Trades : CreateTradeCommit(r, t)
  <2>1. PICK t \in Trades : CreateTradeCommit(r, t)
    BY <1>5
  <2> DEFINE u == req[r].user
             note == req[r].note
  <2>2. /\ req[r].pc = "write" /\ req[r].op = "propose" /\ ~Exists(t)
        /\ trades' = [trades EXCEPT ![t] = CreateTrade(u, req[r].with)]
        /\ events' = [events EXCEPT ![t] = <<[kind |-> "proposed", actor |-> u]>>]
        /\ messages' = Said(t, u, note)
    BY <2>1 DEF CreateTradeCommit, At
  <2>3. u \in Users /\ note \in BOOLEAN
    BY <1>0, <2>2, FieldsOfRequest
  <2>4. ConsentValid(u)
    BY <1>0, <2>2 DEF RequestInOrder, HoldsItsUsers, Serves
  <2>5. \A x \in Trades : x # t => trades'[x] = trades[x] /\ events'[x] = events[x]
    BY <1>0, <2>2 DEF TypeOK
  <2>6. QED  BY <2>2, <2>3, <2>4, <2>5
<1>6. CASE \/ ApproveTradeCommit(r) \/ DeclineTradeCommit(r) \/ WithdrawTradeCommit(r)
           \/ CancelTradeCommit(r) \/ FailTradeCommit(r) \/ CompleteTradeCommit(r)
  <2> DEFINE t == req[r].trade
             u == req[r].user
             note == req[r].note
             Results == {ApproveTrade(Row(t), u), WithdrawTrade(Row(t), u), DeclineTrade(Row(t), u),
                         FailTrade(Row(t), u), CancelTrade(Row(t), u), CompleteTrade(Row(t), u)}
  <2>1. req[r].pc = "write" /\ req[r].op \in TradeOps
    BY <1>6 DEF ApproveTradeCommit, DeclineTradeCommit, WithdrawTradeCommit, CancelTradeCommit,
       FailTradeCommit, CompleteTradeCommit, At, TradeOps
  <2>2. t \in Trades /\ u \in Users /\ note \in BOOLEAN
    BY <1>0, <2>1, FieldsOfRequest
  <2>3. Exists(t)
    BY <1>0, <2>1 DEF RequestInOrder, NamesItsTrade, Serves
  <2>4. \E new \in Results, kind \in EventKinds : Record(r, new, kind)
    BY <1>6 DEF ApproveTradeCommit, DeclineTradeCommit, WithdrawTradeCommit, CancelTradeCommit,
       FailTradeCommit, CompleteTradeCommit, EventKinds
  <2>5. PICK new \in Results, kind \in EventKinds : Record(r, new, kind)
    BY <2>4
  <2>6. CASE new = Row(t)
    BY <1>1, <2>5, <2>6 DEF Record, Refuse
  <2>7. CASE new # Row(t)
    <3>1. /\ trades' = [trades EXCEPT ![t] = new]
          /\ events' = [events EXCEPT ![t] = Append(@, [kind |-> kind, actor |-> u])]
          /\ messages' = Said(t, u, note)
      BY <2>5, <2>7 DEF Record
    <3>2. /\ Row(t) \in TradeRows /\ Row(t).proposer # Row(t).receiver
          /\ PressesFit(Row(t)) /\ TimesFit(Row(t))
      BY <2>2, <2>3, RowInOrder
    <3>3. IsInProgress(Row(t))
      BY <2>2, <2>7, <3>2, StatementsMoveRows DEF MovesTo
    <3>4. note => ConsentValid(u)
      BY <1>0, <2>1, <3>3 DEF RequestInOrder, ConsentStands, Serves, RecordsWords
    <3>5. \A x \in Trades : x # t => trades'[x] = trades[x] /\ events'[x] = events[x]
      BY <1>0, <2>2, <3>1 DEF TypeOK
    <3>6. QED  BY <2>2, <3>1, <3>3, <3>4, <3>5
  <2>8. QED  BY <2>6, <2>7
<1>7. QED  BY <1>2, <1>3, <1>4, <1>5, <1>6 DEF Continue

LEMMA StepsAreAllowed ==
    ASSUME Inv, [Next]_vars
    PROVE  \/ UNCHANGED <<trades, events, messages>>
           \/ \E t \in Trades, u \in Users, note \in BOOLEAN :
                 /\ Exists(t) => IsInProgress(Row(t))
                 /\ \A x \in Trades : x # t => trades'[x] = trades[x] /\ events'[x] = events[x]
                 /\ messages' = Said(t, u, note)
                 /\ note => ConsentValid(u)
<1>1. CASE UNCHANGED database
  BY <1>1 DEF database
<1>2. ASSUME NEW r \in Requests, NEW u \in Users, NEW t \in Trades, BeginTrade(r, u, t)
      PROVE  UNCHANGED database
  BY <1>2 DEF BeginTrade, ApproveTradeBegin, DeclineTradeBegin, WithdrawTradeBegin, CancelTradeBegin,
     FailTradeBegin, CompleteTradeBegin, CreateTradeMessageBegin, Begin
<1>3. ASSUME NEW r \in Requests, NEW u \in Users, BeginUser(r, u)
      PROVE  UNCHANGED database
  BY <1>3 DEF BeginUser, CreateTradeBegin, WithdrawMessageConsentBegin, DeleteAccountBegin,
     CreateMessageConsentBegin, Begin
<1>4. ASSUME NEW r \in Requests, Abort(r)
      PROVE  UNCHANGED database
  BY <1>4 DEF Abort, Refuse
<1>5. CASE \E r \in Requests : Continue(r)
  BY <1>5, ChangesAreAllowed
<1>6. QED  BY <1>1, <1>2, <1>3, <1>4, <1>5 DEF Next, vars

\* The stage condition of every UPDATE, and of the INSERT of a message, keeps
\* what a request had read before the end from changing an ended trade.
THEOREM EndedTradesStayAsTheyAre == Spec => EndedTradesRest
<1>1. ASSUME Inv, [Next]_vars, NEW t \in Trades, Exists(t), ~IsInProgress(Row(t))
      PROVE  <<trades[t], events[t], messages[t]>>' = <<trades[t], events[t], messages[t]>>
  <2>1. CASE UNCHANGED <<trades, events, messages>>
    BY <2>1
  <2>2. CASE ~UNCHANGED <<trades, events, messages>>
    <3>1. PICK x \in Trades, u \in Users, note \in BOOLEAN :
             /\ Exists(x) => IsInProgress(Row(x))
             /\ \A y \in Trades : y # x => trades'[y] = trades[y] /\ events'[y] = events[y]
             /\ messages' = Said(x, u, note)
      BY <1>1, <2>2, StepsAreAllowed
    <3>2. t # x
      BY <1>1, <3>1
    <3>3. messages'[t] = messages[t]
      BY <3>1, <3>2, <1>1, SaidTouchesOne DEF Inv
    <3>4. QED  BY <3>1, <3>2, <3>3
  <2>3. QED  BY <2>1, <2>2
<1>2. Inv /\ [Next]_vars =>
        [\A t \in Trades : Exists(t) /\ ~IsInProgress(Row(t))
            => <<trades[t], events[t], messages[t]>>' = <<trades[t], events[t], messages[t]>>]_vars
  BY <1>1
<1>3. QED  BY <1>2, InvHolds, PTL DEF Spec, EndedTradesRest

\* The consent a request read before its transaction still stands when its
\* words are recorded.
THEOREM WordsAreConsentedTo == Spec => WordsNeedConsent
<1>1. ASSUME Inv, [Next]_vars, NEW t \in Trades, NEW u \in Users, messages'[t][u] # messages[t][u]
      PROVE  ConsentValid(u)
  <2>1. PICK x \in Trades, v \in Users, note \in BOOLEAN :
           messages' = Said(x, v, note) /\ (note => ConsentValid(v))
    BY <1>1, StepsAreAllowed
  <2>2. u = v /\ note
    BY <1>1, <2>1, SaidTouchesOne DEF Inv
  <2>3. QED  BY <2>1, <2>2
<1>2. Inv /\ [Next]_vars =>
        [\A t \in Trades, u \in Users : messages'[t][u] # messages[t][u] => ConsentValid(u)]_vars
  BY <1>1
<1>3. QED  BY <1>2, InvHolds, PTL DEF Spec, WordsNeedConsent

-----------------------------------------------------------------------------
(* The contract. *)

\* A statement that finds its row does to the deal what the contract says.
LEMMA StatementsMoveDeals ==
    ASSUME NEW row \in TradeRows, NEW u \in Users, row.proposer # row.receiver
    PROVE  /\ WithdrawTrade(row, u) # row =>
                /\ row.status = "pending"
                /\ DealOf(WithdrawTrade(row, u)) = [DealOf(row) EXCEPT !.stage = "withdrawn"]
           /\ ApproveTrade(row, u) # row =>
                /\ row.status = "pending" /\ u = row.receiver
                /\ DealOf(ApproveTrade(row, u)) = [DealOf(row) EXCEPT !.stage = "matched"]
           /\ DeclineTrade(row, u) # row =>
                /\ row.status = "pending" /\ u = row.receiver
                /\ DealOf(DeclineTrade(row, u)) = [DealOf(row) EXCEPT !.stage = "declined"]
           /\ CancelTrade(row, u) # row =>
                /\ row.status = "matched" /\ IsParticipant(row, u) /\ DealOf(row).pressed = {}
                /\ DealOf(CancelTrade(row, u)) = [DealOf(row) EXCEPT !.stage = "cancelled"]
           /\ FailTrade(row, u) # row =>
                /\ row.status = "matched" /\ IsParticipant(row, u)
                /\ DealOf(FailTrade(row, u)) = [DealOf(row) EXCEPT !.stage = "failed"]
           /\ CompleteTrade(row, u) # row =>
                /\ row.status = "matched" /\ IsParticipant(row, u) /\ u \notin DealOf(row).pressed
                /\ DealOf(CompleteTrade(row, u)) =
                     [DealOf(row) EXCEPT !.pressed = @ \cup {u},
                                         !.stage = IF DealOf(row).pressed = {} THEN "matched" ELSE "completed"]
<1>1. ASSUME NEW new, NEW s,
             new.proposer = row.proposer, new.receiver = row.receiver, new.status = s,
             new.proposerCompleted = row.proposerCompleted, new.receiverCompleted = row.receiverCompleted
      PROVE  DealOf(new) = [DealOf(row) EXCEPT !.stage = s]
  <2>1. {x \in {new.proposer, new.receiver} : HasCompleted(new, x)}
          = {x \in {row.proposer, row.receiver} : HasCompleted(row, x)}
    BY <1>1 DEF HasCompleted
  <2>2. PICK pressed : pressed = {x \in {row.proposer, row.receiver} : HasCompleted(row, x)}
    OBVIOUS
  <2>3. /\ DealOf(row) = [from |-> row.proposer, to |-> row.receiver, stage |-> row.status, pressed |-> pressed]
        /\ DealOf(new) = [from |-> row.proposer, to |-> row.receiver, stage |-> s, pressed |-> pressed]
    BY <1>1, <2>1, <2>2, Zenon DEF DealOf
  <2>4. QED  BY <2>3
<1>2. DealOf(row).pressed = {} <=> ~HasAnyCompleted(row)
  <2>1. DealOf(row).pressed = {x \in {row.proposer, row.receiver} : HasCompleted(row, x)}
    BY DEF DealOf
  <2>2. row.proposerCompleted \in BOOLEAN /\ row.receiverCompleted \in BOOLEAN
    BY DEF TradeRows
  <2>3. HasCompleted(row, row.proposer) = row.proposerCompleted /\ HasCompleted(row, row.receiver) = row.receiverCompleted
    BY DEF HasCompleted
  <2>4. {x \in {row.proposer, row.receiver} : HasCompleted(row, x)} = {}
          <=> ~HasCompleted(row, row.proposer) /\ ~HasCompleted(row, row.receiver)
    OBVIOUS
  <2>5. QED  BY <2>1, <2>2, <2>3, <2>4 DEF HasAnyCompleted
<1>3. ASSUME WithdrawTrade(row, u) # row
      PROVE  /\ row.status = "pending"
             /\ DealOf(WithdrawTrade(row, u)) = [DealOf(row) EXCEPT !.stage = "withdrawn"]
  <2>1. PICK new : new = WithdrawTrade(row, u)
    OBVIOUS
  <2>2. /\ row.status = "pending"
        /\ new.proposer = row.proposer /\ new.receiver = row.receiver /\ new.status = "withdrawn"
        /\ new.proposerCompleted = row.proposerCompleted /\ new.receiverCompleted = row.receiverCompleted
    BY <1>3, <2>1 DEF WithdrawTrade, TradeRows
  <2>3. QED  BY <1>1, <2>1, <2>2
<1>4. ASSUME ApproveTrade(row, u) # row
      PROVE  /\ row.status = "pending" /\ u = row.receiver
             /\ DealOf(ApproveTrade(row, u)) = [DealOf(row) EXCEPT !.stage = "matched"]
  <2>1. PICK new : new = ApproveTrade(row, u)
    OBVIOUS
  <2>2. /\ row.status = "pending" /\ u = row.receiver
        /\ new.proposer = row.proposer /\ new.receiver = row.receiver /\ new.status = "matched"
        /\ new.proposerCompleted = row.proposerCompleted /\ new.receiverCompleted = row.receiverCompleted
    BY <1>4, <2>1 DEF ApproveTrade, TradeRows
  <2>3. QED  BY <1>1, <2>1, <2>2
<1>5. ASSUME DeclineTrade(row, u) # row
      PROVE  /\ row.status = "pending" /\ u = row.receiver
             /\ DealOf(DeclineTrade(row, u)) = [DealOf(row) EXCEPT !.stage = "declined"]
  <2>1. PICK new : new = DeclineTrade(row, u)
    OBVIOUS
  <2>2. /\ row.status = "pending" /\ u = row.receiver
        /\ new.proposer = row.proposer /\ new.receiver = row.receiver /\ new.status = "declined"
        /\ new.proposerCompleted = row.proposerCompleted /\ new.receiverCompleted = row.receiverCompleted
    BY <1>5, <2>1 DEF DeclineTrade, TradeRows
  <2>3. QED  BY <1>1, <2>1, <2>2
<1>6. ASSUME CancelTrade(row, u) # row
      PROVE  /\ row.status = "matched" /\ IsParticipant(row, u) /\ DealOf(row).pressed = {}
             /\ DealOf(CancelTrade(row, u)) = [DealOf(row) EXCEPT !.stage = "cancelled"]
  <2>1. PICK new : new = CancelTrade(row, u)
    OBVIOUS
  <2>2. /\ row.status = "matched" /\ IsParticipant(row, u) /\ DealOf(row).pressed = {}
        /\ new.proposer = row.proposer /\ new.receiver = row.receiver /\ new.status = "cancelled"
        /\ new.proposerCompleted = row.proposerCompleted /\ new.receiverCompleted = row.receiverCompleted
    BY <1>6, <1>2, <2>1 DEF CancelTrade, TradeRows
  <2>3. QED  BY <1>1, <2>1, <2>2
<1>7. ASSUME FailTrade(row, u) # row
      PROVE  /\ row.status = "matched" /\ IsParticipant(row, u)
             /\ DealOf(FailTrade(row, u)) = [DealOf(row) EXCEPT !.stage = "failed"]
  <2>1. PICK new : new = FailTrade(row, u)
    OBVIOUS
  <2>2. /\ row.status = "matched" /\ IsParticipant(row, u)
        /\ new.proposer = row.proposer /\ new.receiver = row.receiver /\ new.status = "failed"
        /\ new.proposerCompleted = row.proposerCompleted /\ new.receiverCompleted = row.receiverCompleted
    BY <1>7, <2>1 DEF FailTrade, TradeRows
  <2>3. QED  BY <1>1, <2>1, <2>2
<1>8. ASSUME CompleteTrade(row, u) # row
      PROVE  /\ row.status = "matched" /\ IsParticipant(row, u) /\ u \notin DealOf(row).pressed
             /\ DealOf(CompleteTrade(row, u)) =
                  [DealOf(row) EXCEPT !.pressed = @ \cup {u},
                                      !.stage = IF DealOf(row).pressed = {} THEN "matched" ELSE "completed"]
  <2>1. /\ row.status = "matched"
        /\ \/ row.proposer = u /\ ~row.proposerCompleted
           \/ row.receiver = u /\ ~row.receiverCompleted
    BY <1>8 DEF CompleteTrade
  <2>2. IsParticipant(row, u) /\ u \notin DealOf(row).pressed
    BY <2>1 DEF IsParticipant, DealOf, HasCompleted
  <2>3. PICK new : new = CompleteTrade(row, u)
    OBVIOUS
  <2>4. /\ new.proposer = row.proposer /\ new.receiver = row.receiver
        /\ new.proposerCompleted <=> row.proposerCompleted \/ row.proposer = u
        /\ new.receiverCompleted <=> row.receiverCompleted \/ row.receiver = u
        /\ new.status = IF HasAnyCompleted(row) THEN "completed" ELSE "matched"
    BY <2>1, <2>3 DEF CompleteTrade, TradeRows
  <2>5. DealOf(new).pressed = DealOf(row).pressed \cup {u}
    BY <2>1, <2>4 DEF DealOf, HasCompleted
  <2>6. PICK before, after : before = DealOf(row).pressed /\ after = DealOf(new).pressed
    OBVIOUS
  <2>7. /\ DealOf(row) = [from |-> row.proposer, to |-> row.receiver, stage |-> row.status, pressed |-> before]
        /\ DealOf(new) = [from |-> row.proposer, to |-> row.receiver, stage |-> new.status, pressed |-> after]
    BY <2>4, <2>6 DEF DealOf
  <2>8. DealOf(new) = [DealOf(row) EXCEPT !.pressed = after, !.stage = new.status]
    <3>1. [DealOf(row) EXCEPT !.pressed = after, !.stage = new.status]
            = [[DealOf(row) EXCEPT !.pressed = after] EXCEPT !.stage = new.status]
      BY <2>7
    <3>2. PICK pressed : pressed = [from |-> row.proposer, to |-> row.receiver, stage |-> row.status, pressed |-> after]
      OBVIOUS
    <3>3. [DealOf(row) EXCEPT !.pressed = after] = pressed
      BY <2>7, <3>2
    <3>4. [pressed EXCEPT !.stage = new.status] = DealOf(new)
      BY <2>7, <3>2
    <3>5. QED  BY <3>1, <3>3, <3>4, Zenon
  <2>9. /\ after = before \cup {u}
        /\ new.status = IF before = {} THEN "matched" ELSE "completed"
    BY <1>2, <2>4, <2>5, <2>6
  <2>10. DealOf(row).pressed = before
    BY <2>6
  <2>11. DealOf(new) = [DealOf(row) EXCEPT !.pressed = @ \cup {u},
                           !.stage = IF DealOf(row).pressed = {} THEN "matched" ELSE "completed"]
    BY <2>8, <2>9, <2>10
  <2>12. QED  BY <2>1, <2>2, <2>3, <2>11
<1>9. QED  BY <1>3, <1>4, <1>5, <1>6, <1>7, <1>8

\* From one step to the next a request is idle, or what it was, or further on.
LEMMA RequestsKeepTheirNotes ==
    ASSUME TypeOK, NotesFit, NEW r \in Requests,
           \/ req' = [req EXCEPT ![r] = Idle]
           \/ /\ req[r].pc # "idle"
              /\ \E pc \in {"lock1", "lock2", "consent", "check", "write"} : req' = [req EXCEPT ![r].pc = pc]
    PROVE  NotesFit'
<1>1. ASSUME NEW x \in Requests, x # r PROVE CarriesWordsAsItShould(x)'
  <2>1. req'[x] = req[x]
    BY <1>1 DEF TypeOK
  <2>2. QED  BY <2>1 DEF NotesFit, CarriesWordsAsItShould, Serves
<1>2. CarriesWordsAsItShould(r)'
  <2>1. CASE req' = [req EXCEPT ![r] = Idle]
    <3>1. req'[r] = Idle
      BY <2>1 DEF TypeOK
    <3>2. QED  BY <3>1 DEF CarriesWordsAsItShould, Serves, Idle
  <2>2. CASE req[r].pc # "idle" /\ \E pc \in {"lock1", "lock2", "consent", "check", "write"} : req' = [req EXCEPT ![r].pc = pc]
    <3>1. PICK pc \in {"lock1", "lock2", "consent", "check", "write"} : req'[r] = [req[r] EXCEPT !.pc = pc]
      BY <2>2 DEF TypeOK
    <3>2. req[r] \in TradeRequests \/ req[r] \in Proposals \/ req[r] \in UserRequests
      BY <2>2 DEF TypeOK, RequestStates, Idle
    <3>3. CASE req[r] \in TradeRequests
      <4>1. req[r].pc \in {"consent", "write"} /\ req'[r].op = req[r].op /\ req'[r].note = req[r].note
        BY <3>1, <3>3 DEF TradeRequests
      <4>2. QED  BY <4>1 DEF NotesFit, CarriesWordsAsItShould, Serves
    <3>4. CASE req[r] \in Proposals \/ req[r] \in UserRequests
      <4>1. req'[r].op \in {"propose"} \cup UserOps
        BY <3>1, <3>4 DEF Proposals, UserRequests
      <4>2. QED  BY <4>1 DEF CarriesWordsAsItShould, Serves, UserOps
    <3>5. QED  BY <3>2, <3>3, <3>4
  <2>3. QED  BY <2>1, <2>2
<1>3. QED  BY <1>1, <1>2 DEF NotesFit

LEMMA BeginningsKeepNotes ==
    ASSUME TypeOK, NotesFit, NEW r \in Requests, NEW state, Begin(r, state),
           state.op \in {"approve", "withdraw"} => ~state.note,
           state.op = "cancel" => state.note
    PROVE  NotesFit'
<1>1. req'[r] = state /\ \A x \in Requests : x # r => req'[x] = req[x]
  BY DEF Begin, TypeOK
<1>2. QED  BY <1>1 DEF NotesFit, CarriesWordsAsItShould, Serves

LEMMA NextKeepsNotes ==
    ASSUME TypeOK, NotesFit, [Next]_vars
    PROVE  NotesFit'
<1>1. CASE UNCHANGED vars
  BY <1>1 DEF vars, NotesFit, CarriesWordsAsItShould, Serves
<1>2. ASSUME NEW r \in Requests, NEW u \in Users, NEW t \in Trades, BeginTrade(r, u, t)
      PROVE  NotesFit'
  <2>1. CASE ApproveTradeBegin(r, u, t)
    BY <2>1, BeginningsKeepNotes DEF ApproveTradeBegin
  <2>2. CASE \E note \in Notes : DeclineTradeBegin(r, u, t, note)
    BY <2>2, BeginningsKeepNotes DEF DeclineTradeBegin
  <2>3. CASE WithdrawTradeBegin(r, u, t)
    BY <2>3, BeginningsKeepNotes DEF WithdrawTradeBegin
  <2>4. CASE CancelTradeBegin(r, u, t)
    BY <2>4, BeginningsKeepNotes DEF CancelTradeBegin
  <2>5. CASE \E note \in Notes : FailTradeBegin(r, u, t, note)
    BY <2>5, BeginningsKeepNotes DEF FailTradeBegin
  <2>6. CASE \E note \in Notes : CompleteTradeBegin(r, u, t, note)
    BY <2>6, BeginningsKeepNotes DEF CompleteTradeBegin
  <2>7. CASE CreateTradeMessageBegin(r, u, t)
    BY <2>7, BeginningsKeepNotes DEF CreateTradeMessageBegin
  <2>8. QED  BY <1>2, <2>1, <2>2, <2>3, <2>4, <2>5, <2>6, <2>7 DEF BeginTrade
<1>3. ASSUME NEW r \in Requests, NEW u \in Users, BeginUser(r, u)
      PROVE  NotesFit'
  <2>1. CASE \E v \in Users, note \in Notes : CreateTradeBegin(r, u, v, note)
    BY <2>1, BeginningsKeepNotes DEF CreateTradeBegin
  <2>2. CASE WithdrawMessageConsentBegin(r, u) \/ DeleteAccountBegin(r, u) \/ CreateMessageConsentBegin(r, u)
    BY <2>2, BeginningsKeepNotes DEF WithdrawMessageConsentBegin, DeleteAccountBegin, CreateMessageConsentBegin
  <2>3. QED  BY <1>3, <2>1, <2>2 DEF BeginUser
<1>4. ASSUME NEW r \in Requests, Continue(r) \/ Abort(r)
      PROVE  NotesFit'
  <2>1. CASE req' = [req EXCEPT ![r] = Idle]
    BY <2>1, RequestsKeepTheirNotes
  <2>2. CASE CheckConsent(r) \/ CreateTradeLockFirst(r) \/ CreateTradeLockSecond(r) \/ LockOwnUser(r) \/ CheckNoTradeInProgress(r)
    BY <2>1, <2>2, RequestsKeepTheirNotes
       DEF CheckConsent, CreateTradeLockFirst, CreateTradeLockSecond, LockOwnUser, CheckNoTradeInProgress,
           At, LockUser, Proceed, Refuse, Return
  <2>3. CASE \/ ApproveTradeCommit(r) \/ DeclineTradeCommit(r) \/ WithdrawTradeCommit(r)
             \/ CancelTradeCommit(r) \/ FailTradeCommit(r) \/ CompleteTradeCommit(r)
             \/ CreateTradeMessageCommit(r) \/ \E t \in Trades : CreateTradeCommit(r, t)
             \/ WithdrawMessageConsentCommit(r) \/ CreateMessageConsentCommit(r) \/ DeleteAccountCommit(r)
             \/ Abort(r)
    BY <2>1, <2>3
       DEF ApproveTradeCommit, DeclineTradeCommit, WithdrawTradeCommit, CancelTradeCommit, FailTradeCommit,
           CompleteTradeCommit, CreateTradeMessageCommit, CreateTradeCommit, WithdrawMessageConsentCommit,
           CreateMessageConsentCommit, DeleteAccountCommit, Abort, Record, Refuse, Return
  <2>4. QED  BY <1>4, <2>2, <2>3 DEF Continue
<1>5. QED  BY <1>1, <1>2, <1>3, <1>4 DEF Next

\* What a request does before it commits, the contract does not see.
LEMMA QuietStepsStutter ==
    ASSUME UNCHANGED database
    PROVE  UNCHANGED Contract!vars
<1>1. /\ alive' = alive /\ messages' = messages
      /\ trades' = trades /\ consents' = consents
  BY DEF database
<1>2. Deals' = Deals
  BY <1>1 DEF Deals, Exists, Row, DealOf, HasCompleted
<1>3. Consenting' = Consenting
  BY <1>1 DEF Consenting, ConsentValid
<1>4. QED  BY <1>1, <1>2, <1>3 DEF Contract!vars

LEMMA TypesOfTheContract ==
    ASSUME TypeOK
    PROVE  /\ Deals = [t \in Trades |-> IF Exists(t) THEN DealOf(Row(t)) ELSE Unproposed]
           /\ \A t \in Trades : Exists(t) =>
                 /\ Deals[t] = DealOf(Row(t)) /\ Deals[t] # Unproposed
                 /\ Deals[t].stage = Row(t).status
                 /\ Deals[t].from = Row(t).proposer /\ Deals[t].to = Row(t).receiver
           /\ \A t \in Trades : ~Exists(t) => Deals[t] = Unproposed
           /\ \A u \in Users : Consenting[u] = ConsentValid(u)
<1>1. ASSUME NEW t \in Trades, Exists(t)
      PROVE  /\ Deals[t] = DealOf(Row(t)) /\ Deals[t] # Unproposed
             /\ Deals[t].stage = Row(t).status
             /\ Deals[t].from = Row(t).proposer /\ Deals[t].to = Row(t).receiver
  <2>1. Row(t).status \in Statuses
    BY <1>1 DEF TypeOK, Exists, Row, TradeRows
  <2>2. Deals[t] = DealOf(Row(t))
    BY <1>1 DEF Deals
  <2>3. /\ DealOf(Row(t)).stage = Row(t).status
        /\ DealOf(Row(t)).from = Row(t).proposer /\ DealOf(Row(t)).to = Row(t).receiver
    BY DEF DealOf
  <2>4. Unproposed.stage = "unproposed"
    BY DEF Unproposed
  <2>5. "unproposed" \notin Statuses
    BY DEF Statuses, InProgressStatuses, EndedStatuses
  <2>6. QED  BY <2>1, <2>2, <2>3, <2>4, <2>5
<1>2. QED  BY <1>1 DEF Deals, Consenting

\* A commit that moves the row of t moves the deal of t, and nothing else.
LEMMA TheDealMoves ==
    ASSUME TypeOK, NEW t \in Trades, NEW row \in TradeRows,
           trades' = [trades EXCEPT ![t] = row], alive' = alive, consents' = consents
    PROVE  /\ Deals' = [Deals EXCEPT ![t] = DealOf(row)]
           /\ Consenting' = Consenting
<1>1. /\ trades'[t] = row /\ row # NoTrade
      /\ \A x \in Trades : x # t => trades'[x] = trades[x]
  BY NoTradeIsNoRow DEF TypeOK
<1>2. Deals'[t] = DealOf(row)
  BY <1>1 DEF Deals, Exists, Row, DealOf, HasCompleted
<1>3. \A x \in Trades : x # t => Deals'[x] = Deals[x]
  BY <1>1 DEF Deals, Exists, Row, DealOf, HasCompleted
<1>4. Deals' = [x \in Trades |-> Deals'[x]] /\ Deals = [x \in Trades |-> Deals[x]]
  BY DEF Deals
<1>5. Deals' = [Deals EXCEPT ![t] = DealOf(row)]
  BY <1>2, <1>3, <1>4
<1>6. Consenting' = Consenting
  BY DEF Consenting, ConsentValid
<1>7. QED  BY <1>5, <1>6

\* The words of a request are words the contract lets its user say.
LEMMA WordsAreSpoken ==
    ASSUME TypeOK, NEW t \in Trades, NEW u \in Users, NEW note \in BOOLEAN,
           messages' = Said(t, u, note), note => ConsentValid(u)
    PROVE  /\ Contract!Speak(t, u)
           /\ ~note => messages' = messages
           /\ note => messages' = [messages EXCEPT ![t][u] = @ + 1]
BY TypesOfTheContract DEF Said, Contract!Speak

\* The six conditional updates are the six ways to move a deal on.
LEMMA TradeCommitsAreContracted ==
    ASSUME Inv, NotesFit, NEW r \in Requests,
           \/ ApproveTradeCommit(r) \/ DeclineTradeCommit(r) \/ WithdrawTradeCommit(r)
           \/ CancelTradeCommit(r) \/ FailTradeCommit(r) \/ CompleteTradeCommit(r)
    PROVE  UNCHANGED database \/ Contract!Next
<1> DEFINE t == req[r].trade
           u == req[r].user
           note == req[r].note
           row == Row(t)
<1>1. req[r].pc = "write" /\ req[r].op \in TradeOps
  BY DEF ApproveTradeCommit, DeclineTradeCommit, WithdrawTradeCommit, CancelTradeCommit,
         FailTradeCommit, CompleteTradeCommit, At, TradeOps
<1>2. t \in Trades /\ u \in Users /\ note \in BOOLEAN /\ TypeOK
  BY <1>1, FieldsOfRequest DEF Inv
<1>3. /\ Exists(t) /\ IsParticipant(row, u)
      /\ RecordsWords(r) /\ IsInProgress(row) => ConsentValid(u)
  BY <1>1 DEF Inv, RequestsInOrder, RequestInOrder, NamesItsTrade, ConsentStands, Serves
<1>4. /\ row \in TradeRows /\ row.proposer # row.receiver
      /\ PressesFit(row) /\ TimesFit(row)
  BY <1>2, <1>3, RowInOrder
<1>5. /\ Deals[t] = DealOf(row) /\ Deals[t] # Unproposed /\ Deals[t].stage = row.status
      /\ Deals[t].from = row.proposer /\ Deals[t].to = row.receiver
      /\ Contract!Parties(t) = {row.proposer, row.receiver}
      /\ Consenting[u] = ConsentValid(u)
  BY <1>2, <1>3, TypesOfTheContract DEF Contract!Parties
<1>6. ASSUME NEW new \in TradeRows, NEW kind, Record(r, new, kind), new # row,
             IsInProgress(row)
      PROVE  /\ alive' = alive /\ Consenting' = Consenting
             /\ Deals' = [Deals EXCEPT ![t] = DealOf(new)]
             /\ Contract!Speak(t, u)
             /\ note => Consenting[u]
             /\ ~note => messages' = messages
             /\ note => messages' = [messages EXCEPT ![t][u] = @ + 1]
  <2>1. /\ trades' = [trades EXCEPT ![t] = new] /\ alive' = alive /\ consents' = consents
        /\ messages' = Said(t, u, note)
    BY <1>6 DEF Record
  <2>2. note => ConsentValid(u)
    BY <1>3, <1>6 DEF RecordsWords
  <2>3. Deals' = [Deals EXCEPT ![t] = DealOf(new)] /\ Consenting' = Consenting
    BY <1>2, <2>1, TheDealMoves
  <2>4. /\ Contract!Speak(t, u)
        /\ ~note => messages' = messages
        /\ note => messages' = [messages EXCEPT ![t][u] = @ + 1]
    BY <1>2, <2>1, <2>2, WordsAreSpoken
  <2>5. QED  BY <1>5, <2>1, <2>2, <2>3, <2>4
<1>7. ASSUME NEW kind, Record(r, row, kind)
      PROVE  UNCHANGED database
  BY <1>7 DEF Record, Refuse
<1>8. row.status \in {"pending", "matched"} => IsInProgress(row)
  BY DEF IsInProgress, InProgressStatuses
<1>9. /\ Serves(r, {"approve", "withdraw"}, {"write"}) => ~note
      /\ Serves(r, {"cancel"}, {"write"}) => note
  BY DEF NotesFit, CarriesWordsAsItShould, Serves
<1> HIDE DEF t, u, note, row
<1>11. CASE ApproveTradeCommit(r)
  <2>1. PICK new : new = ApproveTrade(row, u)
    OBVIOUS
  <2>2. Record(r, new, "approved") /\ new \in TradeRows /\ ~note /\ req[r].op = "approve"
    BY <1>2, <1>4, <1>9, <1>11, <2>1, RowsStayRows DEF ApproveTradeCommit, At, Serves, row, t, u
  <2>3. CASE new # row
    <3>1. /\ row.status = "pending" /\ u = row.receiver
          /\ DealOf(new) = [DealOf(row) EXCEPT !.stage = "matched"]
      BY <1>2, <1>4, <2>1, <2>3, StatementsMoveDeals
    <3>2. ConsentValid(u)
      BY <1>3, <1>8, <2>2, <3>1 DEF RecordsWords
    <3>3. Contract!Approve(t)
      BY <1>5, <1>6, <1>8, <2>2, <2>3, <3>1, <3>2 DEF Contract!Approve, Contract!Stage, Contract!MoveOn
    <3>4. QED  BY <1>2, <3>3 DEF Contract!Next
  <2>4. QED  BY <1>7, <2>2, <2>3
<1>12. CASE DeclineTradeCommit(r)
  <2>1. PICK new : new = DeclineTrade(row, u)
    OBVIOUS
  <2>2. Record(r, new, "declined") /\ new \in TradeRows
    BY <1>2, <1>4, <1>12, <2>1, RowsStayRows DEF DeclineTradeCommit, row, t, u
  <2>3. CASE new # row
    <3>1. /\ row.status = "pending" /\ u = row.receiver
          /\ DealOf(new) = [DealOf(row) EXCEPT !.stage = "declined"]
      BY <1>2, <1>4, <2>1, <2>3, StatementsMoveDeals
    <3>2. Contract!Decline(t)
      BY <1>5, <1>6, <1>8, <2>2, <2>3, <3>1 DEF Contract!Decline, Contract!Stage, Contract!MoveOn
    <3>3. QED  BY <1>2, <3>2 DEF Contract!Next
  <2>4. QED  BY <1>7, <2>2, <2>3
<1>13. CASE WithdrawTradeCommit(r)
  <2>1. PICK new : new = WithdrawTrade(row, u)
    OBVIOUS
  <2>2. Record(r, new, "withdrawn") /\ new \in TradeRows /\ ~note
    BY <1>2, <1>4, <1>9, <1>13, <2>1, RowsStayRows DEF WithdrawTradeCommit, At, Serves, row, t, u
  <2>3. CASE new # row
    <3>1. /\ row.status = "pending"
          /\ DealOf(new) = [DealOf(row) EXCEPT !.stage = "withdrawn"]
      BY <1>2, <1>4, <2>1, <2>3, StatementsMoveDeals
    <3>2. Contract!Withdraw(t)
      BY <1>5, <1>6, <1>8, <2>2, <2>3, <3>1 DEF Contract!Withdraw, Contract!Stage, Contract!MoveOn
    <3>3. QED  BY <1>2, <3>2 DEF Contract!Next
  <2>4. QED  BY <1>7, <2>2, <2>3
<1>14. CASE CancelTradeCommit(r)
  <2>1. PICK new : new = CancelTrade(row, u)
    OBVIOUS
  <2>2. Record(r, new, "cancelled") /\ new \in TradeRows /\ note
    BY <1>2, <1>4, <1>9, <1>14, <2>1, RowsStayRows DEF CancelTradeCommit, At, Serves, row, t, u
  <2>3. CASE new # row
    <3>1. /\ row.status = "matched" /\ u \in {row.proposer, row.receiver} /\ DealOf(row).pressed = {}
          /\ DealOf(new) = [DealOf(row) EXCEPT !.stage = "cancelled"]
      BY <1>2, <1>3, <1>4, <2>1, <2>3, StatementsMoveDeals DEF IsParticipant
    <3>2. Contract!CallOff(t, u)
      BY <1>5, <1>6, <1>8, <2>2, <2>3, <3>1 DEF Contract!CallOff, Contract!Stage, Contract!MoveOn
    <3>3. QED  BY <1>2, <3>2 DEF Contract!Next
  <2>4. QED  BY <1>7, <2>2, <2>3
<1>15. CASE FailTradeCommit(r)
  <2>1. PICK new : new = FailTrade(row, u)
    OBVIOUS
  <2>2. Record(r, new, "failed") /\ new \in TradeRows
    BY <1>2, <1>4, <1>15, <2>1, RowsStayRows DEF FailTradeCommit, row, t, u
  <2>3. CASE new # row
    <3>1. /\ row.status = "matched" /\ u \in {row.proposer, row.receiver}
          /\ DealOf(new) = [DealOf(row) EXCEPT !.stage = "failed"]
      BY <1>2, <1>3, <1>4, <2>1, <2>3, StatementsMoveDeals DEF IsParticipant
    <3>2. Contract!Fail(t, u)
      BY <1>5, <1>6, <1>8, <2>2, <2>3, <3>1 DEF Contract!Fail, Contract!Stage, Contract!MoveOn
    <3>3. QED  BY <1>2, <3>2 DEF Contract!Next
  <2>4. QED  BY <1>7, <2>2, <2>3
<1>16. CASE CompleteTradeCommit(r)
  <2>1. PICK new : new = CompleteTrade(row, u)
    OBVIOUS
  <2>2. Record(r, new, "completed") /\ new \in TradeRows
    BY <1>2, <1>4, <1>16, <2>1, RowsStayRows DEF CompleteTradeCommit, row, t, u
  <2>3. CASE new # row
    <3>1. /\ row.status = "matched" /\ u \in {row.proposer, row.receiver} /\ u \notin DealOf(row).pressed
          /\ DealOf(new) = [DealOf(row) EXCEPT !.pressed = @ \cup {u},
                               !.stage = IF DealOf(row).pressed = {} THEN "matched" ELSE "completed"]
      BY <1>2, <1>3, <1>4, <2>1, <2>3, StatementsMoveDeals DEF IsParticipant
    <3>2. Contract!Press(t, u)
      BY <1>5, <1>6, <1>8, <2>2, <2>3, <3>1 DEF Contract!Press, Contract!Stage, Contract!MoveOn
    <3>3. QED  BY <1>2, <3>2 DEF Contract!Next
  <2>4. QED  BY <1>7, <2>2, <2>3
<1>17. QED  BY <1>11, <1>12, <1>13, <1>14, <1>15, <1>16

LEMMA MessageCommitIsContracted ==
    ASSUME Inv, NEW r \in Requests, CreateTradeMessageCommit(r)
    PROVE  UNCHANGED database \/ Contract!Next
<1> DEFINE t == req[r].trade
           u == req[r].user
<1>1. CASE ~IsInProgress(Row(t))
  BY <1>1 DEF CreateTradeMessageCommit, Refuse
<1>2. CASE IsInProgress(Row(t))
  <2>1. /\ req[r].pc = "write" /\ req[r].op = "message"
        /\ messages' = Said(t, u, TRUE)
    BY <1>2 DEF CreateTradeMessageCommit, At
  <2>2. t \in Trades /\ u \in Users /\ TypeOK
    BY <2>1, FieldsOfRequest DEF Inv, TradeOps
  <2>3. Exists(t) /\ IsParticipant(Row(t), u) /\ ConsentValid(u)
    BY <1>2, <2>1 DEF Inv, RequestsInOrder, RequestInOrder, NamesItsTrade, ConsentStands, Serves, RecordsWords, TradeOps
  <2>4. alive' = alive /\ trades' = trades /\ consents' = consents
    BY <1>2 DEF CreateTradeMessageCommit
  <2>5. Deals' = Deals /\ Consenting' = Consenting
    BY <2>4 DEF Deals, Consenting, Exists, Row, DealOf, HasCompleted, ConsentValid
  <2>6. messages' = [messages EXCEPT ![t][u] = @ + 1]
    BY <2>1 DEF Said
  <2>7. Contract!OpenDeal(t) /\ u \in Contract!Parties(t) /\ Consenting[u]
    BY <1>2, <2>2, <2>3, TypesOfTheContract
       DEF Contract!OpenDeal, Contract!Open, Contract!Parties, IsInProgress, InProgressStatuses, IsParticipant
  <2>8. Contract!Say(t, u)
    BY <2>4, <2>5, <2>6, <2>7 DEF Contract!Say
  <2>9. QED  BY <2>2, <2>8 DEF Contract!Next
<1>3. QED  BY <1>1, <1>2

LEMMA ProposalIsContracted ==
    ASSUME Inv, NEW r \in Requests, NEW t \in Trades, CreateTradeCommit(r, t)
    PROVE  Contract!Next
<1> DEFINE p == req[r].user
           q == req[r].with
           note == req[r].note
<1>1. /\ req[r].pc = "write" /\ req[r].op = "propose" /\ TypeOK
      /\ p \in Users /\ q \in Users /\ note \in BOOLEAN
  BY FieldsOfRequest DEF Inv, CreateTradeCommit, At
<1>2. p # q /\ alive[p] /\ alive[q] /\ ConsentValid(p)
  BY <1>1 DEF Inv, RequestsInOrder, RequestInOrder, HoldsItsUsers, Serves, LockOrder
<1>3. /\ ~Exists(t)
      /\ trades' = [trades EXCEPT ![t] = CreateTrade(p, q)]
      /\ messages' = Said(t, p, note)
      /\ alive' = alive /\ consents' = consents
  BY DEF CreateTradeCommit
<1>4. Deals' = [Deals EXCEPT ![t] = DealOf(CreateTrade(p, q))] /\ Consenting' = Consenting
  BY <1>1, <1>3, NewRowIsARow, TheDealMoves
<1>5. DealOf(CreateTrade(p, q)) = [from |-> p, to |-> q, stage |-> "pending", pressed |-> {}]
  <2>1. PICK row : row = CreateTrade(p, q)
    OBVIOUS
  <2>2. /\ row.proposer = p /\ row.receiver = q /\ row.status = "pending"
        /\ \A x : ~HasCompleted(row, x)
    BY <2>1 DEF CreateTrade, HasCompleted
  <2>3. {x \in {p, q} : HasCompleted(row, x)} = {}
    BY <2>2
  <2>4. QED  BY <2>1, <2>2, <2>3 DEF DealOf
<1>6. Contract!Speak(t, p) /\ Deals[t] = Unproposed /\ Consenting[p]
  BY <1>1, <1>2, <1>3, WordsAreSpoken, TypesOfTheContract
<1>7. Contract!Propose(t, p, q)
  BY <1>2, <1>3, <1>4, <1>5, <1>6 DEF Contract!Propose
<1>8. QED  BY <1>1, <1>7 DEF Contract!Next

LEMMA UserCommitsAreContracted ==
    ASSUME Inv, NEW r \in Requests,
           WithdrawMessageConsentCommit(r) \/ CreateMessageConsentCommit(r) \/ DeleteAccountCommit(r)
    PROVE  UNCHANGED database \/ Contract!Next
<1>0. PICK u : u = req[r].user
  OBVIOUS
<1>1. req[r].pc = "write" /\ req[r].op \in UserOps
  BY DEF WithdrawMessageConsentCommit, CreateMessageConsentCommit, DeleteAccountCommit, At, UserOps
<1>2. u \in Users /\ TypeOK
  BY <1>0, <1>1, FieldsOfRequest DEF Inv
<1>3. req[r].op \in {"revoke", "leave"} => alive[u] /\ ~ExistsInProgressTrade(u)
  BY <1>0, <1>1 DEF Inv, RequestsInOrder, RequestInOrder, HoldsItsUser, Serves
<1>4. ASSUME ~ExistsInProgressTrade(u) PROVE ~Contract!Busy(u)
  <2>1. ASSUME NEW t \in Trades, Contract!OpenDeal(t), u \in Contract!Parties(t)
        PROVE  FALSE
    <3>1. Exists(t)
      BY <1>2, <2>1, TypesOfTheContract DEF Contract!OpenDeal
    <3>2. IsInProgress(Row(t)) /\ IsParticipant(Row(t), u)
      BY <1>2, <2>1, <3>1, TypesOfTheContract
         DEF Contract!OpenDeal, Contract!Open, Contract!Parties, IsInProgress, InProgressStatuses, IsParticipant
    <3>3. QED  BY <1>4, <3>1, <3>2 DEF ExistsInProgressTrade
  <2>2. QED  BY <2>1 DEF Contract!Busy
<1>5. ASSUME NEW given \in BOOLEAN,
             consents' = [consents EXCEPT ![u] = consents'[u]], ConsentValid(u)' <=> given
      PROVE  Consenting' = [Consenting EXCEPT ![u] = given]
  <2>1. \A x \in Users : x # u => ConsentValid(x)' = ConsentValid(x)
    BY <1>2, <1>5 DEF ConsentValid, TypeOK
  <2>2. ConsentValid(u)' = given
    BY <1>5 DEF ConsentValid
  <2>3. QED  BY <1>2, <2>1, <2>2 DEF Consenting
<1>6. consents[u] \in Seq({"given", "withdrawn"}) /\ Len(consents[u]) \in Nat
  BY <1>2 DEF TypeOK
<1>7. trades' = trades => Deals' = Deals
  BY DEF Deals, Exists, Row, DealOf, HasCompleted
<1>8. CASE WithdrawMessageConsentCommit(r)
  <2>1. CASE Refuse(r)
    BY <2>1 DEF Refuse
  <2>2. CASE ~Refuse(r)
    <3>1. /\ \E i \in 1..Len(consents[u]) : consents[u][i] = "given"
          /\ consents' = [consents EXCEPT ![u] = [i \in 1..Len(consents[u]) |-> "withdrawn"]]
          /\ alive' = alive /\ trades' = trades /\ messages' = messages
          /\ req[r].op = "revoke"
      BY <1>0, <1>8, <2>2 DEF WithdrawMessageConsentCommit, At
    <3>2. consents'[u] = [i \in 1..Len(consents[u]) |-> "withdrawn"] /\ Len(consents[u]) >= 1
      BY <1>2, <1>6, <3>1 DEF TypeOK
    <3>3. Len(consents'[u]) = Len(consents[u]) /\ consents'[u][Len(consents[u])] = "withdrawn"
      BY <1>6, <3>2
    <3>4. ~ConsentValid(u)'
      BY <3>3 DEF ConsentValid
    <3>5. consents' = [consents EXCEPT ![u] = consents'[u]]
      BY <3>1, <3>2
    <3>6. Consenting' = [Consenting EXCEPT ![u] = FALSE]
      BY <1>5, <3>4, <3>5
    <3>7. Contract!Revoke(u)
      BY <1>3, <1>4, <1>7, <3>1, <3>6 DEF Contract!Revoke
    <3>8. QED  BY <1>2, <3>7 DEF Contract!Next
  <2>3. QED  BY <2>1, <2>2
<1>9. CASE CreateMessageConsentCommit(r)
  <2>1. /\ consents' = [consents EXCEPT ![u] = Append(consents[u], "given")]
        /\ alive' = alive /\ trades' = trades /\ messages' = messages
    BY <1>0, <1>9 DEF CreateMessageConsentCommit
  <2>2. consents'[u] = Append(consents[u], "given")
    BY <1>2, <2>1 DEF TypeOK
  <2>3. Len(consents'[u]) = Len(consents[u]) + 1 /\ consents'[u][Len(consents[u]) + 1] = "given"
    BY <1>6, <2>2
  <2>4. consents'[u] # << >>
    BY <1>6, <2>3
  <2>5. ConsentValid(u)'
    BY <2>3, <2>4 DEF ConsentValid
  <2>6. Consenting' = [Consenting EXCEPT ![u] = TRUE]
    BY <1>5, <2>1, <2>2, <2>5
  <2>7. Contract!Agree(u)
    BY <1>7, <2>1, <2>6 DEF Contract!Agree
  <2>8. QED  BY <1>2, <2>7 DEF Contract!Next
<1>10. CASE DeleteAccountCommit(r)
  <2>1. /\ alive' = [alive EXCEPT ![u] = FALSE]
        /\ consents' = consents /\ trades' = trades /\ messages' = messages
        /\ req[r].op = "leave"
    BY <1>0, <1>10 DEF DeleteAccountCommit, At
  <2>2. Consenting' = Consenting
    BY <2>1 DEF Consenting, ConsentValid
  <2>3. Contract!Leave(u)
    BY <1>3, <1>4, <1>7, <2>1, <2>2 DEF Contract!Leave
  <2>4. QED  BY <1>2, <2>3 DEF Contract!Next
<1>11. QED  BY <1>8, <1>9, <1>10

LEMMA InitIsContracted == Init => Contract!Init
<1> SUFFICES ASSUME Init PROVE Contract!Init
  OBVIOUS
<1>1. Consenting \in [Users -> BOOLEAN]
  BY DEF Consenting, ConsentValid
<1>2. Deals = [t \in Trades |-> Unproposed]
  BY DEF Init, Deals, Exists
<1>3. QED  BY <1>1, <1>2 DEF Init, Contract!Init

LEMMA StepsAreContracted ==
    ASSUME Inv, NotesFit, [Next]_vars
    PROVE  [Contract!Next]_(Contract!vars)
<1>1. CASE UNCHANGED database
  BY <1>1, QuietStepsStutter
<1>2. ASSUME NEW r \in Requests, NEW u \in Users, NEW t \in Trades, BeginTrade(r, u, t)
      PROVE  UNCHANGED database
  BY <1>2 DEF BeginTrade, ApproveTradeBegin, DeclineTradeBegin, WithdrawTradeBegin, CancelTradeBegin,
     FailTradeBegin, CompleteTradeBegin, CreateTradeMessageBegin, Begin
<1>3. ASSUME NEW r \in Requests, NEW u \in Users, BeginUser(r, u)
      PROVE  UNCHANGED database
  BY <1>3 DEF BeginUser, CreateTradeBegin, WithdrawMessageConsentBegin, DeleteAccountBegin,
     CreateMessageConsentBegin, Begin
<1>4. ASSUME NEW r \in Requests, Abort(r)
      PROVE  UNCHANGED database
  BY <1>4 DEF Abort, Refuse
<1>5. ASSUME NEW r \in Requests, Continue(r)
      PROVE  UNCHANGED database \/ Contract!Next
  <2>1. CASE \/ CheckConsent(r) \/ CreateTradeLockFirst(r) \/ CreateTradeLockSecond(r)
             \/ LockOwnUser(r) \/ CheckNoTradeInProgress(r)
    BY <2>1 DEF CheckConsent, CreateTradeLockFirst, CreateTradeLockSecond, LockOwnUser,
       CheckNoTradeInProgress, LockUser, Refuse, Proceed
  <2>2. CASE \/ ApproveTradeCommit(r) \/ DeclineTradeCommit(r) \/ WithdrawTradeCommit(r)
             \/ CancelTradeCommit(r) \/ FailTradeCommit(r) \/ CompleteTradeCommit(r)
    BY <2>2, TradeCommitsAreContracted
  <2>3. CASE CreateTradeMessageCommit(r)
    BY <2>3, MessageCommitIsContracted
  <2>4. CASE \E t \in Trades : CreateTradeCommit(r, t)
    BY <2>4, ProposalIsContracted
  <2>5. CASE WithdrawMessageConsentCommit(r) \/ CreateMessageConsentCommit(r) \/ DeleteAccountCommit(r)
    BY <2>5, UserCommitsAreContracted
  <2>6. QED  BY <1>5, <2>1, <2>2, <2>3, <2>4, <2>5 DEF Continue
<1>6. CASE UNCHANGED vars
  BY <1>1, <1>6 DEF vars
<1>7. QED  BY <1>1, <1>2, <1>3, <1>4, <1>5, <1>6 DEF Next

\* The handlers read first, wait for locks, check and write, many of them at
\* a time; what they do to members, consents, deals and words is what
\* operations that take a single instant could have done.
THEOREM ContractIsImplemented == Spec => ImplementsContract
<1>1. Init => NotesFit
  BY DEF Init, NotesFit, CarriesWordsAsItShould, Serves, Idle
<1>2. Inv /\ NotesFit /\ [Next]_vars => NotesFit'
  BY NextKeepsNotes DEF Inv
<1>3. Init => Contract!Init
  BY InitIsContracted
<1>4. Inv /\ NotesFit /\ [Next]_vars => [Contract!Next]_(Contract!vars)
  BY StepsAreContracted
<1>5. QED  BY <1>1, <1>2, <1>3, <1>4, InvHolds, PTL DEF Spec, ImplementsContract, Contract!Spec

-----------------------------------------------------------------------------
(* Who waits for whom. *)

\* The row of users a request has to lock next.
Needs(r) ==
    {u \in Users :
        \/ At(r, "propose", "lock1") /\ u = LockOrder(req[r].user, req[r].with)[1]
        \/ At(r, "propose", "lock2") /\ u = LockOrder(req[r].user, req[r].with)[2]
        \/ (At(r, "revoke", "lock1") \/ At(r, "leave", "lock1")) /\ u = req[r].user}

Blockers(r) == {userLock[u] : u \in Needs(r)} \ {NoRequest}

\* Proposals, withdrawals of consent and deletions never wait for each other
\* in a circle.
NoCircleOfWaits ==
    \A circle \in (SUBSET Requests) \ {{}} : \E r \in circle : Blockers(r) \cap circle = {}

LockedUsers == {u \in Users : userLock[u] # NoRequest}

\* Only a proposal waits while it holds a row, and that is the smaller of two.
HolderFits(r, u) ==
    \/ At(r, "propose", "lock2") /\ u = LockOrder(req[r].user, req[r].with)[1]
    \/ Serves(r, {"propose"}, {"consent", "write"})
    \/ Serves(r, {"revoke", "leave"}, {"check", "write"})

WaitInv ==
    /\ \A r \in Requests, u \in Users : userLock[u] = r => HolderFits(r, u)
    /\ IsFiniteSet(LockedUsers)

\* A finite set of numbers has a greatest one: the one that the fewest exceed.
LEMMA FiniteSetsHaveMaxima ==
    ASSUME NEW S \in SUBSET Nat, IsFiniteSet(S), S # {}
    PROVE  \E x \in S : \A y \in S : y <= x
<1> DEFINE Exceeding(x) == {y \in S : y > x}
           Counts == {Cardinality(Exceeding(x)) : x \in S}
<1>1. \A x \in S : IsFiniteSet(Exceeding(x)) /\ Cardinality(Exceeding(x)) \in Nat
  <2>1. \A x \in S : Exceeding(x) \in SUBSET S
    OBVIOUS
  <2>2. QED  BY <2>1, FS_Subset, FS_CardinalityType
<1>2. Counts \subseteq Nat /\ Counts # {}
  BY <1>1
<1>3. PICK n \in Counts : \A k \in Counts : ~(<<k, n>> \in OpToRel(<, Nat))
  <2> HIDE DEF Counts
  <2>1. QED  BY <1>2, NatLessThanWellFounded, WFMin
<1>4. PICK x \in S : n = Cardinality(Exceeding(x))
  BY <1>3
<1>5. ASSUME NEW y \in S, y > x
      PROVE  FALSE
  <2>1. Exceeding(y) \subseteq Exceeding(x) /\ y \in Exceeding(x) \ Exceeding(y)
    <3>1. \A z \in S : z > y => z > x
      BY <1>5
    <3>2. y \in S /\ y > x /\ ~(y > y)
      BY <1>5
    <3>3. QED  BY <3>1, <3>2
  <2>2. Cardinality(Exceeding(y)) <= n /\ Cardinality(Exceeding(y)) # n
    BY <1>1, <1>4, <2>1, FS_Subset
  <2>3. Cardinality(Exceeding(y)) < n
    BY <1>1, <1>4, <2>2
  <2>4. <<Cardinality(Exceeding(y)), n>> \in OpToRel(<, Nat)
    BY <1>1, <1>4, <2>3 DEF OpToRel
  <2>5. QED  BY <1>3, <2>4
<1>6. QED  BY <1>5

\* Whoever is waited for in a circle waits for a user above the one it holds,
\* so the holder of the highest user of all waits outside of the circle.
LEMMA NobodyWaitsInCircles == Inv /\ WaitInv => NoCircleOfWaits
<1> SUFFICES ASSUME Inv, WaitInv, NEW circle \in SUBSET Requests, circle # {},
                    \A r \in circle : Blockers(r) \cap circle # {}
             PROVE  FALSE
  BY DEF NoCircleOfWaits
<1> DEFINE Held == {u \in Users : userLock[u] \in circle}
<1>1. ASSUME NEW r \in circle
      PROVE  \E u \in Needs(r) : userLock[u] \in circle
  BY DEF Blockers
<1>2. Held # {}
  <2>1. PICK r \in circle : TRUE
    OBVIOUS
  <2>2. PICK u \in Needs(r) : userLock[u] \in circle
    BY <1>1
  <2>3. QED  BY <2>2 DEF Needs
<1>3. PICK u \in Held : \A v \in Held : v <= u
  <2>1. Held \in SUBSET LockedUsers
    BY NoRequestIsNoRequest DEF LockedUsers
  <2>2. IsFiniteSet(Held)
    BY <2>1, FS_Subset DEF WaitInv
  <2>3. Held \in SUBSET Nat
    BY UsersAreOrdered
  <2> HIDE DEF Held
  <2>4. QED  BY <1>2, <2>2, <2>3, FiniteSetsHaveMaxima
<1>4. PICK r \in circle : userLock[u] = r
  OBVIOUS
<1>5. HolderFits(r, u)
  BY <1>4 DEF WaitInv
<1>6. PICK v \in Needs(r) : userLock[v] \in circle
  BY <1>1
<1>7. /\ At(r, "propose", "lock2")
      /\ u = LockOrder(req[r].user, req[r].with)[1]
      /\ v = LockOrder(req[r].user, req[r].with)[2]
  BY <1>5, <1>6 DEF HolderFits, Needs, At, Serves
<1>8. req[r].user \in Nat /\ req[r].with \in Nat /\ req[r].user # req[r].with
  <2>1. req[r].user \in Users /\ req[r].with \in Users
    BY <1>7, FieldsOfRequest DEF At, Inv
  <2>2. req[r].user # req[r].with
    BY <1>7 DEF At, Inv, RequestsInOrder, RequestInOrder, HoldsItsUsers, Serves
  <2>3. QED  BY <2>1, <2>2, UsersAreOrdered
<1>9. u < v
  BY <1>7, <1>8 DEF LockOrder
<1>10. v \in Held /\ v \in Nat /\ u \in Nat
  BY <1>6, UsersAreOrdered DEF Needs
<1>11. v <= u
  BY <1>3, <1>10
<1>12. QED  BY <1>9, <1>10, <1>11

LEMMA ReturnKeepsWaitInv ==
    ASSUME TypeOK, WaitInv, NEW r \in Requests, Return(r)
    PROVE  WaitInv'
<1>1. \A x \in Requests : x # r => req'[x] = req[x]
  BY DEF TypeOK, Return
<1>2. \A u \in Users, x \in Requests : userLock'[u] = x => x # r /\ userLock[u] = x
  BY NoRequestIsNoRequest DEF Return
<1>3. LockedUsers' \in SUBSET LockedUsers
  BY DEF LockedUsers, Return
<1>4. \A x \in Requests, u \in Users : userLock'[u] = x => HolderFits(x, u)'
  BY <1>1, <1>2 DEF WaitInv, HolderFits, At, Serves
<1>5. QED  BY <1>3, <1>4, FS_Subset DEF WaitInv

LEMMA BeginKeepsWaitInv ==
    ASSUME TypeOK, WaitInv, NEW r \in Requests, NEW state, Begin(r, state)
    PROVE  WaitInv'
<1>1. \A x \in Requests : x # r => req'[x] = req[x]
  BY DEF TypeOK, Begin
<1>2. \A u \in Users : userLock[u] # r
  BY DEF Begin, WaitInv, HolderFits, At, Serves, Idle
<1>3. \A x \in Requests, u \in Users : userLock'[u] = x => HolderFits(x, u)'
  BY <1>1, <1>2 DEF Begin, WaitInv, HolderFits, At, Serves
<1>4. LockedUsers' = LockedUsers
  BY DEF LockedUsers, Begin
<1>5. QED  BY <1>3, <1>4 DEF WaitInv

\* A request that goes on without locking keeps what it holds.
LEMMA ProceedKeepsWaitInv ==
    ASSUME TypeOK, WaitInv, NEW r \in Requests, NEW pc, Proceed(r, pc), UNCHANGED userLock,
           pc = "write", req[r].pc \in {"consent", "check"}
    PROVE  WaitInv'
<1>1. \A x \in Requests : x # r => req'[x] = req[x]
  BY DEF TypeOK, Proceed
<1>2. req[r] \in TradeRequests \/ req[r] \in Proposals \/ req[r] \in UserRequests
  BY DEF TypeOK, RequestStates, Idle
<1>3. req'[r].pc = "write" /\ req'[r].op = req[r].op
  BY <1>2 DEF TypeOK, Proceed, TradeRequests, Proposals, UserRequests
<1>4. \A u \in Users : userLock[u] = r => HolderFits(r, u)'
  BY <1>3 DEF WaitInv, HolderFits, At, Serves
<1>5. \A x \in Requests, u \in Users : userLock'[u] = x => HolderFits(x, u)'
  BY <1>1, <1>4 DEF WaitInv, HolderFits, At, Serves
<1>6. LockedUsers' = LockedUsers
  BY DEF LockedUsers
<1>7. QED  BY <1>5, <1>6 DEF WaitInv

\* A lock is granted to one that is then where a holder may be.
LEMMA LockKeepsWaitInv ==
    ASSUME TypeOK, WaitInv, NEW r \in Requests, NEW u \in Users, NEW next, LockUser(r, u, next),
           alive[u] => HolderFits(r, u)',
           alive[u] => \A v \in Users : userLock[v] = r => HolderFits(r, v)'
    PROVE  WaitInv'
<1>1. CASE ~alive[u]
  BY <1>1, ReturnKeepsWaitInv DEF LockUser, Refuse
<1>2. CASE alive[u]
  <2>1. \A x \in Requests : x # r => req'[x] = req[x]
    BY <1>2 DEF TypeOK, LockUser, Proceed
  <2>2. \A v \in Users : userLock'[v] = IF v = u THEN r ELSE userLock[v]
    BY <1>2 DEF TypeOK, LockUser
  <2>3. LockedUsers' = LockedUsers \cup {u}
    BY <2>2, NoRequestIsNoRequest DEF LockedUsers
  <2>4. ASSUME NEW x \in Requests, NEW v \in Users, userLock'[v] = x
        PROVE  HolderFits(x, v)'
    <3>1. CASE x = r
      BY <1>2, <2>2, <2>4, <3>1
    <3>2. CASE x # r
      <4>1. userLock[v] = x /\ HolderFits(x, v)
        BY <2>2, <2>4, <3>2 DEF WaitInv
      <4>2. QED  BY <2>1, <3>2, <4>1 DEF HolderFits, At, Serves
    <3>3. QED  BY <3>1, <3>2
  <2>5. QED  BY <2>3, <2>4, FS_AddElement DEF WaitInv
<1>3. QED  BY <1>1, <1>2

LEMMA LockingKeepsWaitInv ==
    ASSUME TypeOK, WaitInv, NEW r \in Requests,
           CreateTradeLockFirst(r) \/ CreateTradeLockSecond(r) \/ LockOwnUser(r)
    PROVE  WaitInv'
<1>0. req[r].pc # "idle"
  BY DEF CreateTradeLockFirst, CreateTradeLockSecond, LockOwnUser, At
<1>1. CASE CreateTradeLockFirst(r)
  <2>1. PICK u : u = LockOrder(req[r].user, req[r].with)[1]
    OBVIOUS
  <2>2. u \in Users /\ LockUser(r, u, "lock2") /\ At(r, "propose", "lock1")
    BY <1>0, <1>1, <2>1, FieldsOfRequest DEF CreateTradeLockFirst, At, LockOrder
  <2>3. \A v \in Users : userLock[v] # r
    BY <2>2 DEF WaitInv, HolderFits, At, Serves
  <2>4. ASSUME alive[u] PROVE HolderFits(r, u)'
    <3>1. req'[r] = [req[r] EXCEPT !.pc = "lock2"] /\ req[r] \in Proposals
      BY <1>0, <2>2, <2>4, FieldsOfRequest DEF TypeOK, LockUser, Proceed, At
    <3>2. /\ req'[r].pc = "lock2" /\ req'[r].op = "propose"
          /\ req'[r].user = req[r].user /\ req'[r].with = req[r].with
      BY <3>1 DEF Proposals
    <3>3. QED  BY <2>1, <3>2 DEF HolderFits, At
  <2>5. QED  BY <2>2, <2>3, <2>4, LockKeepsWaitInv
<1>2. CASE CreateTradeLockSecond(r)
  <2>1. PICK u : u = LockOrder(req[r].user, req[r].with)[2]
    OBVIOUS
  <2>2. u \in Users /\ LockUser(r, u, "consent") /\ At(r, "propose", "lock2")
    BY <1>0, <1>2, <2>1, FieldsOfRequest DEF CreateTradeLockSecond, At, LockOrder
  <2>3. ASSUME alive[u], NEW v \in Users PROVE HolderFits(r, v)'
    <3>1. req'[r] = [req[r] EXCEPT !.pc = "consent"] /\ req[r] \in Proposals
      BY <1>0, <2>2, <2>3, FieldsOfRequest DEF TypeOK, LockUser, Proceed, At
    <3>2. req'[r].pc = "consent" /\ req'[r].op = "propose"
      BY <3>1 DEF Proposals
    <3>3. QED  BY <3>2 DEF HolderFits, Serves
  <2>4. QED  BY <2>2, <2>3, LockKeepsWaitInv
<1>3. CASE LockOwnUser(r)
  <2>1. PICK u : u = req[r].user
    OBVIOUS
  <2>2. /\ req[r].op \in {"revoke", "leave"} /\ LockUser(r, u, "check")
        /\ u \in Users /\ req[r] \in UserRequests
    BY <1>0, <1>3, <2>1, FieldsOfRequest DEF LockOwnUser, At, UserOps
  <2>3. ASSUME alive[u], NEW v \in Users PROVE HolderFits(r, v)'
    <3>1. req'[r] = [req[r] EXCEPT !.pc = "check"]
      BY <2>2, <2>3 DEF TypeOK, LockUser, Proceed
    <3>2. req'[r].pc = "check" /\ req'[r].op = req[r].op
      BY <2>2, <3>1 DEF UserRequests
    <3>3. QED  BY <2>2, <3>2 DEF HolderFits, Serves
  <2>4. QED  BY <2>2, <2>3, LockKeepsWaitInv
<1>4. QED  BY <1>1, <1>2, <1>3

LEMMA NextKeepsWaitInv ==
    ASSUME TypeOK, WaitInv, [Next]_vars
    PROVE  WaitInv'
<1>1. CASE UNCHANGED vars
  BY <1>1 DEF vars, WaitInv, HolderFits, At, Serves, LockedUsers
<1>2. ASSUME NEW r \in Requests, NEW u \in Users, NEW t \in Trades, BeginTrade(r, u, t)
      PROVE  WaitInv'
  BY <1>2, BeginKeepsWaitInv
     DEF BeginTrade, ApproveTradeBegin, DeclineTradeBegin, WithdrawTradeBegin, CancelTradeBegin,
         FailTradeBegin, CompleteTradeBegin, CreateTradeMessageBegin
<1>3. ASSUME NEW r \in Requests, NEW u \in Users, BeginUser(r, u)
      PROVE  WaitInv'
  BY <1>3, BeginKeepsWaitInv
     DEF BeginUser, CreateTradeBegin, WithdrawMessageConsentBegin, DeleteAccountBegin, CreateMessageConsentBegin
<1>4. ASSUME NEW r \in Requests, Return(r)
      PROVE  WaitInv'
  BY <1>4, ReturnKeepsWaitInv
<1>5. ASSUME NEW r \in Requests, Continue(r) \/ Abort(r)
      PROVE  WaitInv'
  <2>1. CASE CheckConsent(r) \/ CheckNoTradeInProgress(r)
    BY <1>4, <2>1, ProceedKeepsWaitInv DEF CheckConsent, CheckNoTradeInProgress, At, Refuse
  <2>2. CASE CreateTradeLockFirst(r) \/ CreateTradeLockSecond(r) \/ LockOwnUser(r)
    BY <2>2, LockingKeepsWaitInv
  <2>3. CASE \/ ApproveTradeCommit(r) \/ DeclineTradeCommit(r) \/ WithdrawTradeCommit(r)
             \/ CancelTradeCommit(r) \/ FailTradeCommit(r) \/ CompleteTradeCommit(r)
             \/ CreateTradeMessageCommit(r) \/ \E t \in Trades : CreateTradeCommit(r, t)
             \/ WithdrawMessageConsentCommit(r) \/ CreateMessageConsentCommit(r) \/ DeleteAccountCommit(r)
             \/ Abort(r)
    BY <1>4, <2>3
       DEF ApproveTradeCommit, DeclineTradeCommit, WithdrawTradeCommit, CancelTradeCommit, FailTradeCommit,
           CompleteTradeCommit, CreateTradeMessageCommit, CreateTradeCommit, WithdrawMessageConsentCommit,
           CreateMessageConsentCommit, DeleteAccountCommit, Abort, Record, Refuse
  <2>4. QED  BY <1>5, <2>1, <2>2, <2>3 DEF Continue
<1>6. QED  BY <1>1, <1>2, <1>3, <1>5 DEF Next

\* LockUserByID takes the smaller id of a proposal first: no number of
\* proposals, withdrawals of consent and deletions can lock each other out.
THEOREM WaitsEnd == Spec => []NoCircleOfWaits
<1>1. Init => WaitInv
  <2> SUFFICES ASSUME Init PROVE WaitInv
    OBVIOUS
  <2>1. LockedUsers = {}
    BY DEF Init, LockedUsers
  <2>2. QED  BY <2>1, FS_EmptySet, NoRequestIsNoRequest DEF Init, WaitInv
<1>2. Inv /\ WaitInv => NoCircleOfWaits
  BY NobodyWaitsInCircles
<1>3. Inv /\ WaitInv /\ [Next]_vars => WaitInv'
  BY NextKeepsWaitInv DEF Inv
<1>4. QED  BY <1>1, <1>2, <1>3, InvHolds, PTL DEF Spec

=============================================================================
