-------------------------- MODULE TradedItemsProofs --------------------------
(***************************************************************************)
(* Theorems about TradedItems and Matching, for any number of users,       *)
(* goods, items, trades and requests, and any quantities.                  *)
(***************************************************************************)
EXTENDS Matching, FiniteSetTheorems, TLAPS

-----------------------------------------------------------------------------
(* The invariant. *)

GiveOf(i, u) == Added(i) /\ items[i].kind = "give" /\ items[i].user = u

\* What a screen shows is what the row held when it had that version.
ScreenInOrder(s) ==
    /\ Added(s.item) /\ s.version <= items[s.item].version
    /\ items[s.item].version = s.version => Listed(s.item) /\ items[s.item].quantity = s.shown

\* A proposal names items of anybody; what it has locked it holds, and once it
\* is checked everything in it is locked and in the right list.
ProposalInOrder(r, s) ==
    /\ s.user # s.with /\ s.receive # {} /\ s.give # {}
    /\ \A i \in s.receive \cup s.give : Added(i)
    /\ s.pc = "lock" => \A i \in s.receive \cup s.give : i \in s.todo \/ itemLock[i] = r
    /\ s.pc = "write" =>
          /\ \A i \in s.receive \cup s.give : itemLock[i] = r
          /\ \A i \in s.receive : ListedGiveOf(i, s.with)
          /\ \A i \in s.give : ListedGiveOf(i, s.user)

\* A wish is taken a point of for an item that its user is given.
IsWishFor(i, t) ==
    /\ Added(i) /\ items[i].kind = "want"
    /\ \E j \in trades[t].items : items[j].goods = items[i].goods /\ items[i].user = Recipient(t, j)

CompletionInOrder(r, s) ==
    /\ Open(s.trade)
    /\ \A i \in Items :
          /\ s.amounts[i] \in {0, 1}
          /\ i \in trades[s.trade].items => s.amounts[i] = 1
          /\ s.amounts[i] = 1 /\ i \notin trades[s.trade].items => IsWishFor(i, s.trade)
          /\ s.amounts[i] > 0 => i \in s.todo \/ itemLock[i] = r

InOrder(r, s) ==
    /\ s.pc = "screen" => ScreenInOrder(s)
    /\ s.pc \in {"lock", "write"} /\ s.op = "propose" => ProposalInOrder(r, s)
    /\ s.pc = "lock" /\ s.op = "complete" => CompletionInOrder(r, s)
    /\ s.pc = "lock" /\ s.op = "leave" =>
          \A i \in s.listed : Added(i) /\ (i \in s.todo \/ itemLock[i] = r)

RequestsAreInOrder == \A r \in Requests : InOrder(r, req[r])

\* The row of a trade is held by the one press that completes it.
CompletionsAreApart ==
    \A q, r \in Requests :
        q # r /\ Doing(q, "complete", "lock") /\ Doing(r, "complete", "lock") => req[q].trade # req[r].trade

\* The unique index.
ListedOnce ==
    \A i, j \in Items :
        /\ Listed(i) /\ Listed(j)
        /\ items[i].user = items[j].user /\ items[i].goods = items[j].goods /\ items[i].kind = items[j].kind
        => i = j

TradesHoldGives ==
    \A t \in Trades : trades[t] # NoRow =>
        /\ trades[t].proposer # trades[t].receiver
        /\ \A i \in trades[t].items : \E u \in {trades[t].proposer, trades[t].receiver} : GiveOf(i, u)

RowsAreInOrder ==
    /\ ListedOnce
    /\ ListedHaveStock
    /\ TradesHoldGives
    /\ OnePointOfEachGoods

Inv ==
    /\ TypeOK
    /\ RequestsAreInOrder
    /\ CompletionsAreApart
    /\ RowsAreInOrder

-----------------------------------------------------------------------------
(* Types, and what rows may do. *)

LEMMA RowsHaveTheirFields ==
    ASSUME TypeOK
    PROVE  /\ \A i \in Items : Added(i) =>
                 /\ items[i] \in ItemRows
                 /\ items[i].user \in Users /\ items[i].goods \in Goods /\ items[i].kind \in Kinds
                 /\ items[i].status \in {"listed", "removed"}
                 /\ items[i].quantity \in 0..MaxQuantity /\ items[i].version \in Nat
           /\ \A t \in Trades : trades[t] # NoRow =>
                 /\ trades[t] \in Trade
                 /\ trades[t].proposer \in Users /\ trades[t].receiver \in Users
                 /\ trades[t].items \in SUBSET Items
BY DEF TypeOK, Added, ItemRows, Trade

LEMMA RequestsHaveTheirFields ==
    ASSUME TypeOK, NEW r \in Requests
    PROVE  /\ req[r].pc = "insert" => req[r].user \in Users
           /\ req[r].pc = "screen" =>
                 /\ req[r].user \in Users /\ req[r].item \in Items /\ req[r].version \in Nat
           /\ req[r].pc \in {"lock", "write"} /\ req[r].op = "propose" =>
                 req[r] \in [pc: {"lock", "write"}, op: {"propose"}, user: Users, with: Users,
                             receive: SUBSET Items, give: SUBSET Items, todo: SUBSET Items]
           /\ req[r].pc = "lock" /\ req[r].op = "complete" =>
                 req[r] \in [pc: {"lock"}, op: {"complete"}, trade: Trades, amounts: [Items -> Nat], todo: SUBSET Items]
           /\ req[r].pc = "lock" /\ req[r].op = "leave" =>
                 req[r] \in [pc: {"lock"}, op: {"leave"}, user: Users, listed: SUBSET Items, todo: SUBSET Items]
           /\ req[r].pc = "write" => req[r].op = "propose"
           /\ req[r].pc = "lock" => req[r].op \in {"propose", "complete", "leave"}
BY DEF TypeOK, RequestStates, Idle

LEMMA RestIsInOrder == Idle \in RequestStates /\ Idle.pc = "idle"
BY DEF Idle, RequestStates

\* A row in a list gets a new version; who, what and which kind do not change.
Changed(i) ==
    /\ Listed(i) /\ Added(i)'
    /\ items'[i].user = items[i].user /\ items'[i].goods = items[i].goods /\ items'[i].kind = items[i].kind
    /\ items'[i].version = items[i].version + 1
    /\ Listed(i)' => items'[i].quantity > 0

\* Nothing happens to what request q relies on: rows it holds, its trade.
Undisturbed(q) ==
    /\ \A i \in Items :
          /\ Added(i) => items'[i] = items[i] \/ (Changed(i) /\ itemLock[i] # q)
          /\ itemLock[i] = q => itemLock'[i] = q
    /\ Doing(q, "complete", "lock") => trades'[req[q].trade] = trades[req[q].trade]

\* Such rows are still what they were a row of.
LEMMA RowsStay ==
    ASSUME NEW i \in Items, Added(i), items'[i] = items[i] \/ Changed(i)
    PROVE  /\ Added(i)'
           /\ items'[i].user = items[i].user /\ items'[i].goods = items[i].goods /\ items'[i].kind = items[i].kind
           /\ Listed(i)' => Listed(i)
BY DEF Changed, Added, Listed

LEMMA UndisturbedStayInOrder ==
    ASSUME Inv, NEW q \in Requests, Undisturbed(q)
    PROVE  \A s : s = req[q] => InOrder(q, s)'
<1> SUFFICES ASSUME NEW s, s = req[q]
             PROVE  InOrder(q, s)'
  OBVIOUS
<1>1. InOrder(q, s)
  BY DEF Inv, RequestsAreInOrder
<1>2. /\ \A i \in Items : Added(i) =>
             /\ Added(i)'
             /\ items'[i].user = items[i].user /\ items'[i].goods = items[i].goods /\ items'[i].kind = items[i].kind
      /\ \A i \in Items : itemLock[i] = q => itemLock'[i] = q /\ (Listed(i) => Listed(i)')
  <2>1. \A i \in Items : Added(i) => items'[i] = items[i] \/ Changed(i)
    BY DEF Undisturbed
  <2>2. \A i \in Items : itemLock[i] = q /\ Added(i) => items'[i] = items[i]
    BY DEF Undisturbed
  <2>3. QED  BY <2>1, <2>2, RowsStay DEF Undisturbed, Listed, Added
<1>3. ASSUME s.pc = "screen"
      PROVE  ScreenInOrder(s)'
  <2>1. s.item \in Items /\ s.version \in Nat /\ ScreenInOrder(s)
    BY <1>1, <1>3, RequestsHaveTheirFields DEF Inv, InOrder
  <2>2. Added(s.item) /\ items[s.item].version \in Nat
    BY <2>1, RowsHaveTheirFields DEF Inv, ScreenInOrder
  <2>3. CASE items'[s.item] = items[s.item]
    BY <2>1, <2>3 DEF ScreenInOrder, Added, Listed
  <2>4. CASE Changed(s.item)
    BY <2>1, <2>2, <2>4 DEF ScreenInOrder, Changed
  <2>5. QED  BY <2>1, <2>2, <2>3, <2>4 DEF Undisturbed
<1>4. ASSUME s.pc \in {"lock", "write"}, s.op = "propose"
      PROVE  ProposalInOrder(q, s)'
  <2>1. s.receive \in SUBSET Items /\ s.give \in SUBSET Items /\ ProposalInOrder(q, s)
    BY <1>1, <1>4, RequestsHaveTheirFields DEF Inv, InOrder
  <2>2. \A i \in s.receive \cup s.give : Added(i)'
    BY <1>2, <2>1 DEF ProposalInOrder
  <2>3. s.pc = "lock" => \A i \in s.receive \cup s.give : i \in s.todo \/ itemLock'[i] = q
    BY <1>2, <2>1 DEF ProposalInOrder
  <2>4. s.pc = "write" =>
           /\ \A i \in s.receive \cup s.give : itemLock'[i] = q
           /\ \A i \in s.receive : ListedGiveOf(i, s.with)'
           /\ \A i \in s.give : ListedGiveOf(i, s.user)'
    BY <1>2, <2>1 DEF ProposalInOrder, ListedGiveOf
  <2>5. QED  BY <2>1, <2>2, <2>3, <2>4 DEF ProposalInOrder
<1>5. ASSUME s.pc = "lock", s.op = "complete"
      PROVE  CompletionInOrder(q, s)'
  <2>1. s.trade \in Trades /\ CompletionInOrder(q, s)
    BY <1>1, <1>5, RequestsHaveTheirFields DEF Inv, InOrder
  <2>2. trades'[s.trade] = trades[s.trade] /\ trades[s.trade] # NoRow
    BY <1>5, <2>1 DEF Undisturbed, Doing, CompletionInOrder, Open
  <2>3. \A j \in trades[s.trade].items : j \in Items /\ Added(j)
    BY <2>1, <2>2, RowsHaveTheirFields DEF Inv, RowsAreInOrder, TradesHoldGives, GiveOf
  <2>4. ASSUME NEW i \in Items, IsWishFor(i, s.trade)
        PROVE  IsWishFor(i, s.trade)'
    BY <1>2, <2>2, <2>3, <2>4 DEF IsWishFor, Recipient
  <2>5. Open(s.trade)'
    BY <2>1, <2>2 DEF CompletionInOrder, Open
  <2>6. ASSUME NEW i \in Items
        PROVE  /\ s.amounts[i] \in {0, 1}
               /\ i \in trades'[s.trade].items => s.amounts[i] = 1
               /\ s.amounts[i] = 1 /\ i \notin trades'[s.trade].items => IsWishFor(i, s.trade)'
               /\ s.amounts[i] > 0 => i \in s.todo \/ itemLock'[i] = q
    BY <1>2, <2>1, <2>2, <2>4 DEF CompletionInOrder
  <2>7. QED  BY <2>5, <2>6 DEF CompletionInOrder
<1>6. ASSUME s.pc = "lock", s.op = "leave"
      PROVE  \A i \in s.listed : Added(i)' /\ (i \in s.todo \/ itemLock'[i] = q)
  <2>1. s.listed \in SUBSET Items
    BY <1>6, RequestsHaveTheirFields DEF Inv
  <2>2. QED  BY <1>1, <1>2, <1>6, <2>1 DEF InOrder
<1>7. QED  BY <1>3, <1>4, <1>5, <1>6 DEF InOrder

-----------------------------------------------------------------------------
(* What a step has to do. *)

\* Rows of items change, and of trades the status at most.
RowsMoveOn ==
    /\ \A i \in Items : items'[i] = items[i] \/ Changed(i)
    /\ \A t \in Trades :
          /\ trades'[t] = NoRow <=> trades[t] = NoRow
          /\ trades[t] # NoRow =>
                /\ trades'[t].proposer = trades[t].proposer /\ trades'[t].receiver = trades[t].receiver
                /\ trades'[t].items = trades[t].items

LEMMA RowsThatMoveOnStayInOrder ==
    ASSUME Inv, RowsMoveOn
    PROVE  RowsAreInOrder'
<1>1. \A i \in Items : Added(i)' =>
         /\ Added(i) /\ (Listed(i)' => Listed(i))
         /\ items'[i].user = items[i].user /\ items'[i].goods = items[i].goods /\ items'[i].kind = items[i].kind
  BY DEF RowsMoveOn, Changed, Added, Listed
<1>2. \A i \in Items : Added(i) =>
         /\ Added(i)'
         /\ items'[i].user = items[i].user /\ items'[i].goods = items[i].goods /\ items'[i].kind = items[i].kind
  BY DEF RowsMoveOn, Changed, Added
<1>3. ListedOnce'
  BY <1>1 DEF Inv, RowsAreInOrder, ListedOnce, Listed
<1>4. ListedHaveStock'
  BY DEF Inv, RowsAreInOrder, ListedHaveStock, RowsMoveOn, Changed, Listed, Added
<1>5. \A t \in Trades : trades'[t] # NoRow => \A i \in trades[t].items : i \in Items /\ Added(i)
  BY RowsHaveTheirFields DEF Inv, RowsAreInOrder, TradesHoldGives, RowsMoveOn, GiveOf
<1>6. TradesHoldGives'
  BY <1>2, <1>5 DEF Inv, RowsAreInOrder, TradesHoldGives, RowsMoveOn, GiveOf
<1>7. OnePointOfEachGoods'
  BY <1>2, <1>5 DEF Inv, RowsAreInOrder, OnePointOfEachGoods, RowsMoveOn
<1>8. QED  BY <1>3, <1>4, <1>6, <1>7 DEF RowsAreInOrder

\* The press of r, if it is one, was under way or is of a trade nobody holds.
LEMMA CompletionsStayApart ==
    ASSUME Inv, NEW r \in Requests,
           \A q \in Requests : q # r => req'[q] = req[q],
           Doing(r, "complete", "lock")' =>
              \/ Doing(r, "complete", "lock") /\ req'[r].trade = req[r].trade
              \/ ~BeingCompleted(req'[r].trade)
    PROVE  CompletionsAreApart'
BY DEF Inv, CompletionsAreApart, Doing, BeingCompleted

LEMMA StepsKeepInv ==
    ASSUME Inv, TypeOK', NEW r \in Requests,
           \A q \in Requests : q # r => req'[q] = req[q] /\ Undisturbed(q),
           \A s : s = req'[r] => InOrder(r, s)',
           CompletionsAreApart', RowsAreInOrder'
    PROVE  Inv'
<1>1. \A q \in Requests : InOrder(q, req[q])'
  <2> TAKE q \in Requests
  <2>1. CASE q = r
    <3>1. PICK s : s = req'[r]
      OBVIOUS
    <3>2. InOrder(r, s)'
      BY <3>1
    <3>3. QED  BY <2>1, <3>1, <3>2 DEF InOrder, ScreenInOrder, ProposalInOrder, CompletionInOrder
  <2>2. CASE q # r
    <3>1. PICK s : s = req[q]
      OBVIOUS
    <3>2. InOrder(q, s)' /\ req'[q] = s
      BY <2>2, <3>1, UndisturbedStayInOrder
    <3>3. QED  BY <3>2 DEF InOrder, ScreenInOrder, ProposalInOrder, CompletionInOrder
  <2>3. QED  BY <2>1, <2>2
<1>2. QED  BY <1>1 DEF Inv, RequestsAreInOrder

LEMMA ReturnsAreInOrder ==
    ASSUME Inv, NEW r \in Requests, Return(r)
    PROVE  /\ req' \in [Requests -> RequestStates]
           /\ userLock' \in [Users -> Requests \cup {NoRequest}]
           /\ itemLock' \in [Items -> Requests \cup {NoRequest}]
           /\ \A q \in Requests : q # r =>
                 req'[q] = req[q] /\ \A i \in Items : itemLock[i] = q => itemLock'[i] = q
           /\ \A s : s = req'[r] => InOrder(r, s)'
           /\ CompletionsAreApart'
<1>1. req' = [req EXCEPT ![r] = Idle] /\ req \in [Requests -> RequestStates]
  BY DEF Return, Inv, TypeOK
<1>2. req'[r].pc = "idle" /\ \A q \in Requests : q # r => req'[q] = req[q]
  BY <1>1, RestIsInOrder
<1>3. req' \in [Requests -> RequestStates]
  BY <1>1, RestIsInOrder
<1>4. /\ userLock' \in [Users -> Requests \cup {NoRequest}]
      /\ itemLock' \in [Items -> Requests \cup {NoRequest}]
  BY DEF Return, Inv, TypeOK
<1>5. \A q \in Requests : q # r => \A i \in Items : itemLock[i] = q => itemLock'[i] = q
  BY DEF Return, Inv, TypeOK
<1>6. CompletionsAreApart'
  BY <1>2, CompletionsStayApart DEF Doing
<1>7. \A s : s = req'[r] => InOrder(r, s)'
  BY <1>2 DEF InOrder
<1>8. QED  BY <1>2, <1>3, <1>4, <1>5, <1>6, <1>7

\* A request moves, and no row is written.
LEMMA MovesKeepInv ==
    ASSUME Inv, TypeOK', NEW r \in Requests, UNCHANGED database,
           \A q \in Requests : q # r =>
              req'[q] = req[q] /\ \A i \in Items : itemLock[i] = q => itemLock'[i] = q,
           \A s : s = req'[r] => InOrder(r, s)',
           CompletionsAreApart'
    PROVE  Inv' /\ RowsMoveOn
<1>1. RowsMoveOn
  BY DEF RowsMoveOn, database
<1>2. RowsAreInOrder'
  BY <1>1, RowsThatMoveOnStayInOrder
<1>3. \A q \in Requests : q # r => Undisturbed(q)
  BY DEF Undisturbed, database
<1>4. QED  BY <1>1, <1>2, <1>3, StepsKeepInv

LEMMA RefusalsKeepInv ==
    ASSUME Inv, NEW r \in Requests, Refuse(r)
    PROVE  Inv' /\ RowsMoveOn
<1>1. Return(r) /\ UNCHANGED database
  BY DEF Refuse
<1>2. TypeOK'
  BY <1>1, ReturnsAreInOrder DEF Inv, TypeOK, database
<1>3. QED  BY <1>1, <1>2, ReturnsAreInOrder, MovesKeepInv

-----------------------------------------------------------------------------
(* The steps that begin a request. *)

LEMMA BeginningsKeepInv ==
    ASSUME Inv, NEW r \in Requests, NEW s \in RequestStates, Begin(r, s), UNCHANGED itemLock,
           userLock' \in [Users -> Requests \cup {NoRequest}],
           InOrder(r, s),
           s.pc = "lock" /\ s.op = "complete" => ~BeingCompleted(s.trade)
    PROVE  Inv' /\ RowsMoveOn
<1>1. req' = [req EXCEPT ![r] = s] /\ req \in [Requests -> RequestStates] /\ UNCHANGED database
  BY DEF Begin, Inv, TypeOK
<1>2. TypeOK'
  BY <1>1 DEF Inv, TypeOK, database
<1>3. req'[r] = s /\ \A q \in Requests : q # r => req'[q] = req[q]
  BY <1>1
<1>4. InOrder(r, s)'
  BY <1>1 DEF database, InOrder, ScreenInOrder, ProposalInOrder, CompletionInOrder, ListedGiveOf, IsWishFor,
              Recipient, Open, Listed, Added
<1>5. CompletionsAreApart'
  BY <1>3, CompletionsStayApart DEF Doing
<1>6. QED  BY <1>1, <1>2, <1>3, <1>4, <1>5, MovesKeepInv

LEMMA LocksOfUsersHaveTheirType ==
    ASSUME Inv, NEW r \in Requests, NEW us, LockUsers(r, us)
    PROVE  userLock' \in [Users -> Requests \cup {NoRequest}] /\ UNCHANGED itemLock
BY DEF LockUsers, Inv, TypeOK

LEMMA AddingBegins ==
    ASSUME Inv, NEW r \in Requests, NEW u \in Users, CreateItemBegin(r, u)
    PROVE  Inv' /\ RowsMoveOn
<1>1. PICK s : s = [pc |-> "insert", op |-> "add", user |-> u]
  OBVIOUS
<1>2. s \in RequestStates /\ s.pc = "insert"
  BY <1>1 DEF RequestStates
<1>3. Begin(r, s) /\ UNCHANGED locks
  BY <1>1 DEF CreateItemBegin
<1>4. InOrder(r, s)
  BY <1>2 DEF InOrder
<1>5. QED  BY <1>2, <1>3, <1>4, BeginningsKeepInv DEF locks, Inv, TypeOK

LEMMA ScreensOpen ==
    ASSUME Inv, NEW r \in Requests, NEW u \in Users, NEW i \in Items, OpenItemScreen(r, u, i)
    PROVE  Inv' /\ RowsMoveOn
<1>1. PICK s : s = [pc |-> "screen", op |-> "edit", user |-> u, item |-> i,
                    version |-> items[i].version, shown |-> items[i].quantity]
  OBVIOUS
<1>2. Listed(i) /\ Added(i) /\ items[i].version \in Nat /\ items[i].quantity \in 0..MaxQuantity
  BY RowsHaveTheirFields DEF OpenItemScreen, ListedBy, Listed, Inv
<1>3. s \in [pc: {"screen"}, op: {"edit"}, user: Users, item: Items, version: Nat, shown: 0..MaxQuantity]
  BY <1>1, <1>2
<1>4. s \in RequestStates /\ s.pc = "screen" /\ s.item = i /\ s.version = items[i].version /\ s.shown = items[i].quantity
  BY <1>1, <1>3 DEF RequestStates
<1>5. Begin(r, s) /\ UNCHANGED locks
  BY <1>1 DEF OpenItemScreen
<1>6. InOrder(r, s)
  BY <1>2, <1>4 DEF InOrder, ScreenInOrder
<1>7. QED  BY <1>4, <1>5, <1>6, BeginningsKeepInv DEF locks, Inv, TypeOK

LEMMA ProposalsBegin ==
    ASSUME Inv, NEW r \in Requests, NEW u \in Users, NEW v \in Users, NEW form \in Forms,
           CreateTradeBegin(r, u, v, form)
    PROVE  Inv' /\ RowsMoveOn
<1> PICK receive, give : receive = form.receive /\ give = form.give
  OBVIOUS
<1>1. PICK s : s = [pc |-> "lock", op |-> "propose", user |-> u, with |-> v,
                    receive |-> receive, give |-> give, todo |-> receive \cup give]
  OBVIOUS
<1>2. /\ receive \subseteq Items /\ receive # {}
      /\ give \subseteq Items /\ give # {}
      /\ \A i \in receive \cup give : Added(i)
  BY FormsHoldIds DEF CreateTradeBegin
<1>3. s \in [pc: {"lock", "write"}, op: {"propose"}, user: Users, with: Users,
             receive: SUBSET Items, give: SUBSET Items, todo: SUBSET Items]
  BY <1>1, <1>2
<1>4. /\ s \in RequestStates /\ s.pc = "lock" /\ s.op = "propose" /\ s.user = u /\ s.with = v
      /\ s.receive = receive /\ s.give = give /\ s.todo = receive \cup give
  BY <1>1, <1>3 DEF RequestStates
<1>5. Begin(r, s) /\ LockUsers(r, {u, v}) /\ u # v
  BY <1>1 DEF CreateTradeBegin, LockItemsByIDs
<1>6. ProposalInOrder(r, s)
  BY <1>2, <1>4, <1>5 DEF ProposalInOrder
<1>7. InOrder(r, s)
  BY <1>4, <1>6 DEF InOrder
<1>8. QED  BY <1>4, <1>5, <1>7, BeginningsKeepInv, LocksOfUsersHaveTheirType

LEMMA WithdrawalsBegin ==
    ASSUME Inv, NEW r \in Requests, NEW u \in Users, DeleteAccountBegin(r, u)
    PROVE  Inv' /\ RowsMoveOn
<1>1. PICK s : s = [pc |-> "lock", op |-> "leave", user |-> u, listed |-> ListedBy(u), todo |-> ListedBy(u)]
  OBVIOUS
<1>2. s \in [pc: {"lock"}, op: {"leave"}, user: Users, listed: SUBSET Items, todo: SUBSET Items]
  BY <1>1 DEF ListedBy
<1>3. s \in RequestStates /\ s.pc = "lock" /\ s.op = "leave" /\ s.listed = s.todo
      /\ \A i \in s.listed : Added(i)
  BY <1>1, <1>2 DEF RequestStates, ListedBy, Listed
<1>4. Begin(r, s) /\ LockUsers(r, {u})
  BY <1>1 DEF DeleteAccountBegin
<1>5. InOrder(r, s)
  BY <1>3 DEF InOrder
<1>6. QED  BY <1>3, <1>4, <1>5, BeginningsKeepInv, LocksOfUsersHaveTheirType

-----------------------------------------------------------------------------
(* What a completion takes. *)

\* Of the goods of an item at most one was given to its user in the trade.
LEMMA OneWishPerGoods ==
    ASSUME Inv, NEW t \in Trades, trades[t] # NoRow, NEW i \in Items,
           NEW j \in trades[t].items, NEW k \in trades[t].items,
           items[i].user = Recipient(t, j), items[i].goods = items[j].goods,
           items[i].user = Recipient(t, k), items[i].goods = items[k].goods
    PROVE  j = k
<1>1. /\ trades[t].proposer # trades[t].receiver
      /\ items[j].user \in {trades[t].proposer, trades[t].receiver}
      /\ items[k].user \in {trades[t].proposer, trades[t].receiver}
  BY DEF Inv, RowsAreInOrder, TradesHoldGives, GiveOf
<1>2. items[j].user = items[k].user
  BY <1>1 DEF Recipient
<1>3. QED  BY <1>2 DEF Inv, RowsAreInOrder, OnePointOfEachGoods

LEMMA AmountsAreOnePoint ==
    ASSUME Inv, NEW t \in Trades, trades[t] # NoRow, NEW i \in Items
    PROVE  /\ Amounts(t)[i] \in {0, 1}
           /\ i \in trades[t].items => Amounts(t)[i] = 1
           /\ Amounts(t)[i] = 1 /\ i \notin trades[t].items => IsWishFor(i, t)
<1> DEFINE fits(j) == /\ Listed(i) /\ items[i].kind = "want"
                      /\ items[i].user = Recipient(t, j)
                      /\ items[i].goods = items[j].goods
           taken == {j \in trades[t].items : j = i \/ fits(j)}
<1>1. Amounts(t)[i] = Cardinality(taken)
  BY DEF Amounts
<1>2. CASE i \in trades[t].items
  <2>1. items[i].kind = "give"
    BY <1>2 DEF Inv, RowsAreInOrder, TradesHoldGives, GiveOf
  <2>2. taken = {i}
    BY <1>2, <2>1
  <2>3. Cardinality(taken) = 1
    BY <2>2, FS_Singleton
  <2>4. QED  BY <1>1, <1>2, <2>3
<1>3. CASE i \notin trades[t].items /\ taken = {}
  <2>1. Cardinality(taken) = 0
    BY <1>3, FS_EmptySet
  <2>2. QED  BY <1>1, <1>3, <2>1
<1>4. CASE i \notin trades[t].items /\ taken # {}
  <2>1. PICK j \in taken : TRUE
    BY <1>4
  <2>2. j \in trades[t].items /\ fits(j)
    BY <1>4, <2>1
  <2>3. \A k \in taken : k = j
    BY <1>4, <2>2, OneWishPerGoods
  <2>4. taken = {j}
    BY <2>1, <2>3
  <2>5. Cardinality(taken) = 1
    BY <2>4, FS_Singleton
  <2>6. IsWishFor(i, t)
    BY <2>2 DEF IsWishFor, Listed
  <2>7. QED  BY <1>1, <1>4, <2>5, <2>6
<1>5. QED  BY <1>2, <1>3, <1>4

LEMMA CompletionsBegin ==
    ASSUME Inv, NEW r \in Requests, NEW t \in Trades, CompleteTradeBegin(r, t)
    PROVE  Inv' /\ RowsMoveOn
<1>1. PICK amounts : amounts = Amounts(t)
  OBVIOUS
<1>2. PICK s : s = [pc |-> "lock", op |-> "complete", trade |-> t, amounts |-> amounts,
                    todo |-> {i \in Items : amounts[i] > 0}]
  OBVIOUS
<1>3. Open(t) /\ trades[t] # NoRow /\ ~BeingCompleted(t) /\ Begin(r, s) /\ UNCHANGED locks
  BY <1>1, <1>2 DEF CompleteTradeBegin, Open
<1>4. \A i \in Items :
         /\ amounts[i] \in {0, 1}
         /\ i \in trades[t].items => amounts[i] = 1
         /\ amounts[i] = 1 /\ i \notin trades[t].items => IsWishFor(i, t)
  BY <1>1, <1>3, AmountsAreOnePoint
<1>5. amounts \in [Items -> Nat]
  <2>1. amounts = [i \in Items |-> amounts[i]]
    BY <1>1 DEF Amounts
  <2>2. QED  BY <1>4, <2>1
<1>6. s \in [pc: {"lock"}, op: {"complete"}, trade: Trades, amounts: [Items -> Nat], todo: SUBSET Items]
  BY <1>2, <1>5
<1>7. /\ s \in RequestStates /\ s.pc = "lock" /\ s.op = "complete" /\ s.trade = t /\ s.amounts = amounts
      /\ \A i \in Items : amounts[i] > 0 => i \in s.todo
  BY <1>2, <1>6 DEF RequestStates
<1>8. CompletionInOrder(r, s)
  BY <1>3, <1>4, <1>7 DEF CompletionInOrder
<1>9. InOrder(r, s)
  BY <1>7, <1>8 DEF InOrder
<1>10. QED  BY <1>3, <1>7, <1>9, BeginningsKeepInv DEF locks, Inv, TypeOK

-----------------------------------------------------------------------------
(* The steps that lock, check and end a trade. *)

LEMMA LocksKeepInv ==
    ASSUME Inv, NEW r \in Requests,
           req[r].pc = "lock", req[r].op \in {"propose", "complete", "leave"},
           NEW i \in req[r].todo, LockItem(r, i)
    PROVE  Inv' /\ RowsMoveOn
<1>1. PICK s : s = req[r]
  OBVIOUS
<1>2. PICK n : n = [s EXCEPT !.todo = @ \ {i}]
  OBVIOUS
<1>3. req' = [req EXCEPT ![r] = n] /\ req \in [Requests -> RequestStates] /\ UNCHANGED <<database, userLock>>
  BY <1>1, <1>2 DEF LockItem, Inv, TypeOK
<1>4. InOrder(r, s) /\ s.pc = "lock"
  BY <1>1 DEF Inv, RequestsAreInOrder
<1>5. /\ n \in RequestStates /\ n.pc = s.pc /\ n.op = s.op /\ s.todo \subseteq Items /\ n.todo = s.todo \ {i}
      /\ s.op = "propose" => n.user = s.user /\ n.with = s.with /\ n.receive = s.receive /\ n.give = s.give
      /\ s.op = "complete" => n.trade = s.trade /\ n.amounts = s.amounts
      /\ s.op = "leave" => n.listed = s.listed
  <2>1. CASE s.op = "propose"
    <3>1. s \in [pc: {"lock", "write"}, op: {"propose"}, user: Users, with: Users,
                 receive: SUBSET Items, give: SUBSET Items, todo: SUBSET Items]
      BY <1>1, <1>4, <2>1, RequestsHaveTheirFields DEF Inv
    <3>2. n \in [pc: {"lock", "write"}, op: {"propose"}, user: Users, with: Users,
                 receive: SUBSET Items, give: SUBSET Items, todo: SUBSET Items]
      BY <1>2, <3>1
    <3>3. QED  BY <1>2, <2>1, <3>1, <3>2 DEF RequestStates
  <2>2. CASE s.op = "complete"
    <3>1. s \in [pc: {"lock"}, op: {"complete"}, trade: Trades, amounts: [Items -> Nat], todo: SUBSET Items]
      BY <1>1, <1>4, <2>2, RequestsHaveTheirFields DEF Inv
    <3>2. n \in [pc: {"lock"}, op: {"complete"}, trade: Trades, amounts: [Items -> Nat], todo: SUBSET Items]
      BY <1>2, <3>1
    <3>3. QED  BY <1>2, <2>2, <3>1, <3>2 DEF RequestStates
  <2>3. CASE s.op = "leave"
    <3>1. s \in [pc: {"lock"}, op: {"leave"}, user: Users, listed: SUBSET Items, todo: SUBSET Items]
      BY <1>1, <1>4, <2>3, RequestsHaveTheirFields DEF Inv
    <3>2. n \in [pc: {"lock"}, op: {"leave"}, user: Users, listed: SUBSET Items, todo: SUBSET Items]
      BY <1>2, <3>1
    <3>3. QED  BY <1>2, <2>3, <3>1, <3>2 DEF RequestStates
  <2>4. QED  BY <1>1, <2>1, <2>2, <2>3
<1>6. i \in Items /\ itemLock[i] = NoRequest /\ itemLock' = [itemLock EXCEPT ![i] = r]
      /\ itemLock \in [Items -> Requests \cup {NoRequest}]
  BY <1>1, <1>5 DEF LockItem, Inv, TypeOK
<1>7. /\ itemLock' \in [Items -> Requests \cup {NoRequest}]
      /\ \A j \in Items : j \in s.todo \/ itemLock[j] = r => j \in n.todo \/ itemLock'[j] = r
      /\ \A q \in Requests : \A j \in Items : itemLock[j] = q => itemLock'[j] = q
  BY <1>5, <1>6, NoRequestIsNoRequest
<1>8. TypeOK'
  BY <1>3, <1>5, <1>7 DEF Inv, TypeOK, database
<1>9. req'[r] = n /\ \A q \in Requests : q # r => req'[q] = req[q]
  BY <1>3
<1>10. UNCHANGED <<alive, items, trades>>
  BY <1>3 DEF database
<1>11. InOrder(r, n)'
  <2>1. CASE s.op = "propose"
    <3>1. ProposalInOrder(r, s)
      BY <1>4, <2>1 DEF InOrder
    <3>2. s.receive \subseteq Items /\ s.give \subseteq Items
      BY <1>1, <1>4, <2>1, RequestsHaveTheirFields DEF Inv
    <3>3. ProposalInOrder(r, n)'
      BY <1>4, <1>5, <1>7, <1>10, <2>1, <3>1, <3>2 DEF ProposalInOrder, Added
    <3>4. QED  BY <1>4, <1>5, <2>1, <3>3 DEF InOrder
  <2>2. CASE s.op = "complete"
    <3>1. CompletionInOrder(r, s)
      BY <1>4, <2>2 DEF InOrder
    <3>2. CompletionInOrder(r, n)'
      BY <1>5, <1>7, <1>10, <2>2, <3>1 DEF CompletionInOrder, Open, IsWishFor, Recipient, Added
    <3>3. QED  BY <1>4, <1>5, <2>2, <3>2 DEF InOrder
  <2>3. CASE s.op = "leave"
    <3>1. s.listed \subseteq Items
      BY <1>1, <1>4, <2>3, RequestsHaveTheirFields DEF Inv
    <3>2. QED  BY <1>4, <1>5, <1>7, <1>10, <2>3, <3>1 DEF InOrder, Added
  <2>4. QED  BY <1>1, <2>1, <2>2, <2>3
<1>12. CompletionsAreApart'
  BY <1>1, <1>5, <1>9, CompletionsStayApart DEF Doing
<1>13. QED  BY <1>3, <1>7, <1>8, <1>9, <1>11, <1>12, MovesKeepInv

LEMMA LockingKeepsInv ==
    ASSUME Inv, NEW r \in Requests, LockInOrder(r) \/ LockAnyNext(r)
    PROVE  Inv' /\ RowsMoveOn
<1>1. req[r].pc = "lock" /\ req[r].op \in {"propose", "complete", "leave"}
  BY DEF LockInOrder, LockAnyNext, Doing
<1>2. PICK i \in req[r].todo : LockItem(r, i)
  BY DEF LockInOrder, LockAnyNext, NextInOrder
<1>3. QED  BY <1>1, <1>2, LocksKeepInv

LEMMA ChecksKeepInv ==
    ASSUME Inv, NEW r \in Requests, ValidateTrade(r)
    PROVE  Inv' /\ RowsMoveOn
<1>1. CASE Refuse(r)
  BY <1>1, RefusalsKeepInv
<1>2. CASE ~Refuse(r)
  <2>1. PICK s : s = req[r]
    OBVIOUS
  <2>2. PICK n : n = [s EXCEPT !.pc = "write"]
    OBVIOUS
  <2>3. /\ req' = [req EXCEPT ![r] = n] /\ req \in [Requests -> RequestStates] /\ UNCHANGED <<database, locks>>
        /\ \A i \in s.receive : ListedGiveOf(i, s.with)
        /\ \A i \in s.give : ListedGiveOf(i, s.user)
        /\ s.pc = "lock" /\ s.op = "propose" /\ s.todo = {}
    BY <1>2, <2>1, <2>2 DEF ValidateTrade, Doing, Inv, TypeOK
  <2>4. s \in [pc: {"lock", "write"}, op: {"propose"}, user: Users, with: Users,
               receive: SUBSET Items, give: SUBSET Items, todo: SUBSET Items]
    BY <2>1, <2>3, RequestsHaveTheirFields DEF Inv
  <2>5. n \in [pc: {"lock", "write"}, op: {"propose"}, user: Users, with: Users,
               receive: SUBSET Items, give: SUBSET Items, todo: SUBSET Items]
    BY <2>2, <2>4
  <2>6. /\ n \in RequestStates /\ n.pc = "write" /\ n.op = "propose"
        /\ n.user = s.user /\ n.with = s.with /\ n.receive = s.receive /\ n.give = s.give
    BY <2>2, <2>4, <2>5 DEF RequestStates
  <2>7. ProposalInOrder(r, s)
    BY <2>1, <2>3 DEF Inv, RequestsAreInOrder, InOrder
  <2>8. ProposalInOrder(r, n)'
    BY <2>3, <2>6, <2>7 DEF ProposalInOrder, ListedGiveOf, Added, Listed, database, locks
  <2>9. InOrder(r, n)'
    BY <2>6, <2>8 DEF InOrder
  <2>10. req'[r] = n /\ \A q \in Requests : q # r => req'[q] = req[q]
    BY <2>3
  <2>11. TypeOK'
    BY <2>3, <2>6 DEF Inv, TypeOK, database, locks
  <2>12. CompletionsAreApart'
    BY <2>6, <2>10, CompletionsStayApart DEF Doing
  <2>13. QED  BY <2>3, <2>9, <2>10, <2>11, <2>12, MovesKeepInv DEF locks
<1>3. QED  BY <1>1, <1>2

LEMMA EndsKeepInv ==
    ASSUME Inv, NEW t \in Trades, EndTrade(t)
    PROVE  Inv' /\ RowsMoveOn
<1>1. /\ trades[t] # NoRow /\ trades' = [trades EXCEPT ![t].status = "over"]
      /\ UNCHANGED <<alive, items, userLock, itemLock, req>>
  BY DEF EndTrade, Open, locks
<1>2. PICK n : n = [trades[t] EXCEPT !.status = "over"]
  OBVIOUS
<1>3. trades[t] \in Trade /\ trades \in [Trades -> Trade \cup {NoRow}]
  BY <1>1, RowsHaveTheirFields DEF Inv, TypeOK
<1>4. /\ n \in Trade
      /\ n.proposer = trades[t].proposer /\ n.receiver = trades[t].receiver /\ n.items = trades[t].items
  BY <1>2, <1>3 DEF Trade
<1>5. trades' = [trades EXCEPT ![t] = n] /\ n # NoRow
  BY <1>1, <1>2, <1>4, NoRowIsNoRow
<1>6. TypeOK'
  BY <1>1, <1>3, <1>4, <1>5 DEF Inv, TypeOK
<1>7. RowsMoveOn
  BY <1>1, <1>3, <1>4, <1>5 DEF RowsMoveOn
<1>8. RowsAreInOrder'
  BY <1>7, RowsThatMoveOnStayInOrder
<1>9. \A q \in Requests : Undisturbed(q)
  <2> TAKE q \in Requests
  <2>1. Doing(q, "complete", "lock") => req[q].trade # t
    BY DEF EndTrade, BeingCompleted, Doing
  <2>2. Doing(q, "complete", "lock") => req[q].trade \in Trades
    BY RequestsHaveTheirFields DEF Inv, Doing
  <2>3. QED  BY <1>1, <1>3, <1>5, <2>1, <2>2 DEF Undisturbed
<1>10. \A q \in Requests : InOrder(q, req[q])'
  <2> TAKE q \in Requests
  <2>1. PICK s : s = req[q]
    OBVIOUS
  <2>2. InOrder(q, s)' /\ req'[q] = s
    BY <1>1, <1>9, <2>1, UndisturbedStayInOrder
  <2>3. QED  BY <2>2 DEF InOrder, ScreenInOrder, ProposalInOrder, CompletionInOrder
<1>11. CompletionsAreApart'
  BY <1>1 DEF Inv, CompletionsAreApart, Doing
<1>12. QED  BY <1>6, <1>7, <1>8, <1>10, <1>11 DEF Inv, RequestsAreInOrder

-----------------------------------------------------------------------------
(* The steps that write rows. *)

LEMMA WritesKeepInv ==
    ASSUME Inv, NEW r \in Requests, Return(r),
           alive' \in [Users -> BOOLEAN],
           items' \in [Items -> ItemRows \cup {NoRow}],
           trades' \in [Trades -> Trade \cup {NoRow}],
           \A i \in Items : Added(i) => items'[i] = items[i] \/ (Changed(i) /\ itemLock[i] \in {r, NoRequest}),
           \A q \in Requests : q # r /\ Doing(q, "complete", "lock") =>
              trades'[req[q].trade] = trades[req[q].trade],
           RowsAreInOrder'
    PROVE  Inv'
<1>1. TypeOK'
  BY ReturnsAreInOrder DEF TypeOK
<1>2. \A q \in Requests : q # r => req'[q] = req[q] /\ Undisturbed(q)
  BY ReturnsAreInOrder, NoRequestIsNoRequest DEF Undisturbed
<1>3. QED  BY <1>1, <1>2, ReturnsAreInOrder, StepsKeepInv

LEMMA AddingKeepsInv ==
    ASSUME Inv, NEW r \in Requests, NEW i \in Items, NEW g \in Goods, NEW k \in Kinds, NEW quantity \in Quantities,
           CreateItemInsert(r, i, g, k, quantity)
    PROVE  /\ Inv'
           /\ trades' = trades
           /\ \A j \in Items : Added(j) => items'[j] = items[j]
<1>1. CASE Refuse(r)
  BY <1>1, RefusalsKeepInv DEF Refuse, database
<1>2. CASE ~Refuse(r)
  <2>1. PICK n : n = NewItem(req[r].user, g, k, quantity)
    OBVIOUS
  <2>2. /\ ~Added(i) /\ ~AlreadyListed(req[r].user, g, k)
        /\ items' = [items EXCEPT ![i] = n] /\ items \in [Items -> ItemRows \cup {NoRow}]
        /\ Return(r) /\ UNCHANGED <<alive, trades>>
        /\ req[r].pc = "insert"
    BY <1>2, <2>1 DEF CreateItemInsert, Doing, Inv, TypeOK
  <2>3. req[r].user \in Users
    BY <2>2, RequestsHaveTheirFields DEF Inv
  <2>4. n.user = req[r].user /\ n.goods = g /\ n.kind = k /\ n.status = "listed" /\ n.quantity = quantity
    BY <2>1 DEF NewItem
  <2>5. quantity \in 0..MaxQuantity /\ quantity > 0
    BY QuantitiesAreNumbers DEF Quantities
  <2>6. n \in ItemRows
    BY <2>1, <2>3, <2>5 DEF NewItem, ItemRows
  <2>7. items'[i] = n /\ \A j \in Items : j # i => items'[j] = items[j]
    BY <2>2
  <2>8. \A j \in Items : Added(j) => j # i /\ items'[j] = items[j]
    BY <2>2, <2>7
  <2>9. ListedOnce'
    <3>1. \A j \in Items : j # i =>
             (Listed(j)' <=> Listed(j)) /\ items'[j] = items[j]
      BY <2>7 DEF Listed, Added
    <3>2. \A j \in Items : Listed(j) => ~(items[j].user = n.user /\ items[j].goods = n.goods /\ items[j].kind = n.kind)
      BY <2>2, <2>4 DEF AlreadyListed, ListedBy
    <3>3. QED  BY <2>7, <3>1, <3>2 DEF Inv, RowsAreInOrder, ListedOnce
  <2>10. ListedHaveStock'
    BY <2>4, <2>5, <2>7 DEF Inv, RowsAreInOrder, ListedHaveStock, Listed, Added
  <2>11. \A t \in Trades : trades[t] # NoRow => \A j \in trades[t].items :
            j \in Items /\ Added(j) /\ items'[j] = items[j]
    BY <2>8, RowsHaveTheirFields DEF Inv, RowsAreInOrder, TradesHoldGives, GiveOf
  <2>12. TradesHoldGives'
    BY <2>2, <2>11 DEF Inv, RowsAreInOrder, TradesHoldGives, GiveOf, Added
  <2>13. OnePointOfEachGoods'
    BY <2>2, <2>11 DEF Inv, RowsAreInOrder, OnePointOfEachGoods
  <2>14. RowsAreInOrder'
    BY <2>9, <2>10, <2>12, <2>13 DEF RowsAreInOrder
  <2>15. items' \in [Items -> ItemRows \cup {NoRow}]
    BY <2>2, <2>6
  <2>16. alive' \in [Users -> BOOLEAN] /\ trades' \in [Trades -> Trade \cup {NoRow}]
    BY <2>2 DEF Inv, TypeOK
  <2>17. Inv'
    BY <2>2, <2>8, <2>14, <2>15, <2>16, WritesKeepInv
  <2>18. QED  BY <2>2, <2>8, <2>17
<1>3. QED  BY <1>1, <1>2

\* An UPDATE of rows that nobody else holds.
LEMMA ChangesKeepInv ==
    ASSUME Inv, NEW r \in Requests, Return(r), UNCHANGED trades,
           alive' \in [Users -> BOOLEAN],
           items' \in [Items -> ItemRows \cup {NoRow}],
           \A i \in Items : items'[i] = items[i] \/ (Changed(i) /\ itemLock[i] \in {r, NoRequest})
    PROVE  Inv' /\ RowsMoveOn
<1>1. RowsMoveOn
  BY DEF RowsMoveOn
<1>2. RowsAreInOrder'
  BY <1>1, RowsThatMoveOnStayInOrder
<1>3. QED  BY <1>1, <1>2, WritesKeepInv DEF Inv, TypeOK

LEMMA SendingKeepsInv ==
    ASSUME Inv, NEW r \in Requests, SendScreen(r)
    PROVE  Inv' /\ RowsMoveOn
<1>1. PICK i : i = req[r].item
  OBVIOUS
<1>2. req[r].pc = "screen"
  BY DEF SendScreen, UpdateItem, DeleteItem, Doing
<1>3. i \in Items /\ ScreenInOrder(req[r])
  BY <1>1, <1>2, RequestsHaveTheirFields DEF Inv, RequestsAreInOrder, InOrder
<1>4. Added(i) /\ items[i] \in ItemRows
  BY <1>1, <1>3, RowsHaveTheirFields DEF Inv, ScreenInOrder
<1>5. PICK n : /\ itemLock[i] = NoRequest
               /\ items' = [items EXCEPT ![i] = n]
               /\ Return(r) /\ UNCHANGED <<alive, trades>>
               /\ \/ \E quantity \in Quantities :
                        n = UpdateListedItem(items[i], req[r].user, req[r].version, quantity)
                  \/ n = RemoveListedItem(items[i], req[r].user, req[r].version)
  BY <1>1 DEF SendScreen, UpdateItem, DeleteItem, ChangeItem
<1>6. /\ n \in ItemRows
      /\ \/ n = items[i]
         \/ /\ items[i].status = "listed" /\ n.user = items[i].user /\ n.goods = items[i].goods
            /\ n.kind = items[i].kind /\ n.version = items[i].version + 1
            /\ n.status = "listed" => n.quantity > 0
  <2>1. CASE n = items[i]
    BY <1>4, <2>1
  <2>2. CASE \E quantity \in Quantities :
                n = [items[i] EXCEPT !.quantity = quantity, !.version = @ + 1] /\ items[i].status = "listed"
    <3>1. PICK quantity \in Quantities :
                n = [items[i] EXCEPT !.quantity = quantity, !.version = @ + 1] /\ items[i].status = "listed"
      BY <2>2
    <3>2. quantity \in 0..MaxQuantity /\ quantity > 0
      BY QuantitiesAreNumbers DEF Quantities
    <3>3. PICK row : row = items[i]
      OBVIOUS
    <3>4. row \in ItemRows /\ row.status = "listed" /\ n = [row EXCEPT !.quantity = quantity, !.version = @ + 1]
      BY <1>4, <3>1, <3>3
    <3>5. n \in ItemRows
      <4>1. row.version + 1 \in Nat
        BY <3>4 DEF ItemRows
      <4>2. PICK v \in Nat : v = row.version + 1
        BY <4>1
      <4>3. n = [row EXCEPT !.quantity = quantity, !.version = v]
        BY <3>4, <4>2
      <4>4. QED  BY <3>2, <3>4, <4>2, <4>3 DEF ItemRows
    <3>6. /\ n.user = row.user /\ n.goods = row.goods /\ n.kind = row.kind
          /\ n.version = row.version + 1 /\ n.quantity = quantity
      BY <3>4 DEF ItemRows
    <3>7. QED  BY <3>2, <3>3, <3>4, <3>5, <3>6
  <2>3. CASE n = [items[i] EXCEPT !.status = "removed", !.version = @ + 1] /\ items[i].status = "listed"
    <3>1. PICK row : row = items[i]
      OBVIOUS
    <3>2. row \in ItemRows /\ row.status = "listed" /\ n = [row EXCEPT !.status = "removed", !.version = @ + 1]
      BY <1>4, <2>3, <3>1
    <3>3. n \in ItemRows
      <4>1. row.version + 1 \in Nat
        BY <3>2 DEF ItemRows
      <4>2. PICK v \in Nat : v = row.version + 1
        BY <4>1
      <4>3. n = [row EXCEPT !.status = "removed", !.version = v]
        BY <3>2, <4>2
      <4>4. QED  BY <3>2, <4>2, <4>3 DEF ItemRows
    <3>4. /\ n.user = row.user /\ n.goods = row.goods /\ n.kind = row.kind
          /\ n.version = row.version + 1 /\ n.status = "removed"
      BY <3>2 DEF ItemRows
    <3>5. QED  BY <3>1, <3>2, <3>3, <3>4
  <2>4. QED  BY <1>5, <2>1, <2>2, <2>3 DEF UpdateListedItem, RemoveListedItem
<1>7. items'[i] = n /\ \A j \in Items : j # i => items'[j] = items[j]
  BY <1>3, <1>5 DEF Inv, TypeOK
<1>8. items'[i] = items[i] \/ Changed(i)
  BY <1>4, <1>6, <1>7, NoRowIsNoRow DEF Changed, Listed, Added
<1>9. items' \in [Items -> ItemRows \cup {NoRow}] /\ alive' \in [Users -> BOOLEAN]
  BY <1>5, <1>6 DEF Inv, TypeOK
<1>10. \A j \in Items : items'[j] = items[j] \/ (Changed(j) /\ itemLock[j] \in {r, NoRequest})
  BY <1>5, <1>7, <1>8
<1>11. QED  BY <1>5, <1>9, <1>10, ChangesKeepInv

LEMMA ProposingKeepsInv ==
    ASSUME Inv, NEW r \in Requests, NEW t \in Trades, CreateTradeCommit(r, t)
    PROVE  /\ Inv'
           /\ UNCHANGED items
           /\ trades'[t].status = "open" /\ \A u \in Trades : u # t => trades'[u] = trades[u]
           /\ \A i \in trades'[t].items :
                 \E u \in {trades'[t].proposer, trades'[t].receiver} : ListedGiveOf(i, u)
           /\ \A u \in {trades'[t].proposer, trades'[t].receiver} :
                 \E i \in trades'[t].items : items[i].user = u
<1>1. PICK s : s = req[r]
  OBVIOUS
<1>2. PICK n : n = [proposer |-> s.user, receiver |-> s.with, items |-> s.receive \cup s.give, status |-> "open"]
  OBVIOUS
<1>3. /\ s.pc = "write" /\ s.op = "propose" /\ trades[t] = NoRow
      /\ trades' = [trades EXCEPT ![t] = n] /\ trades \in [Trades -> Trade \cup {NoRow}]
      /\ Return(r) /\ UNCHANGED <<alive, items>>
  BY <1>1, <1>2 DEF CreateTradeCommit, Doing, Inv, TypeOK
<1>4. s.user \in Users /\ s.with \in Users /\ s.receive \subseteq Items /\ s.give \subseteq Items
  BY <1>1, <1>3, RequestsHaveTheirFields DEF Inv
<1>5. ProposalInOrder(r, s)
  BY <1>1, <1>3 DEF Inv, RequestsAreInOrder, InOrder
<1>6. /\ n \in Trade /\ n.proposer = s.user /\ n.receiver = s.with /\ n.items = s.receive \cup s.give
      /\ n.status = "open"
  BY <1>2, <1>4 DEF Trade
<1>7. trades'[t] = n /\ \A u \in Trades : u # t => trades'[u] = trades[u]
  BY <1>3
<1>8. /\ \A i \in n.items : Listed(i) /\ Added(i) /\ i \in Items /\ items[i].kind = "give"
      /\ \A i \in s.receive : ListedGiveOf(i, s.with)
      /\ \A i \in s.give : ListedGiveOf(i, s.user)
      /\ s.receive # {} /\ s.give # {} /\ s.user # s.with
  BY <1>3, <1>4, <1>5, <1>6 DEF ProposalInOrder, ListedGiveOf, Listed
<1>9. TradesHoldGives'
  BY <1>3, <1>6, <1>7, <1>8 DEF Inv, RowsAreInOrder, TradesHoldGives, GiveOf, ListedGiveOf, Added
<1>10. \A i, j \in n.items : items[i].user = items[j].user /\ items[i].goods = items[j].goods => i = j
  BY <1>8 DEF Inv, RowsAreInOrder, ListedOnce
<1>11. OnePointOfEachGoods'
  BY <1>3, <1>7, <1>10 DEF Inv, RowsAreInOrder, OnePointOfEachGoods
<1>12. RowsAreInOrder'
  BY <1>3, <1>9, <1>11 DEF Inv, RowsAreInOrder, ListedOnce, ListedHaveStock, Listed, Added
<1>13. trades' \in [Trades -> Trade \cup {NoRow}] /\ alive' \in [Users -> BOOLEAN]
       /\ items' \in [Items -> ItemRows \cup {NoRow}]
  BY <1>3, <1>6 DEF Inv, TypeOK
<1>14. \A q \in Requests : q # r /\ Doing(q, "complete", "lock") =>
          trades'[req[q].trade] = trades[req[q].trade]
  <2> SUFFICES ASSUME NEW q \in Requests, Doing(q, "complete", "lock")
               PROVE  trades'[req[q].trade] = trades[req[q].trade]
    OBVIOUS
  <2>1. req[q].trade \in Trades /\ CompletionInOrder(q, req[q])
    BY RequestsHaveTheirFields DEF Inv, RequestsAreInOrder, InOrder, Doing
  <2>2. req[q].trade # t
    BY <1>3, <2>1 DEF CompletionInOrder, Open
  <2>3. QED  BY <1>7, <2>1, <2>2
<1>15. Inv'
  BY <1>3, <1>12, <1>13, <1>14, WritesKeepInv
<1>16. \A i \in n.items : \E u \in {s.user, s.with} : ListedGiveOf(i, u)
  BY <1>6, <1>8
<1>17. \A u \in {s.user, s.with} : \E i \in n.items : items[i].user = u
  BY <1>6, <1>8 DEF ListedGiveOf
<1>18. QED  BY <1>3, <1>6, <1>7, <1>15, <1>16, <1>17

\* A point is taken of a row that is still in a list.
LEMMA OnePointIsTaken ==
    ASSUME NEW row \in ItemRows, NEW n, n = Decrement(row, 1), row.status = "listed" => row.quantity > 0
    PROVE  /\ n \in ItemRows
           /\ row.status # "listed" => n = row
           /\ row.status = "listed" =>
                 /\ n.user = row.user /\ n.goods = row.goods /\ n.kind = row.kind
                 /\ n.version = row.version + 1 /\ n.quantity = row.quantity - 1
                 /\ n.status = "removed" <=> row.quantity = 1
                 /\ n.status = "listed" => n.quantity > 0
<1>1. CASE row.status # "listed"
  BY <1>1 DEF Decrement
<1>2. CASE row.status = "listed"
  <2>1. /\ row.version + 1 \in Nat /\ row.quantity \in 0..MaxQuantity /\ row.quantity \in Nat /\ row.quantity > 0
        /\ row.status \in {"listed", "removed"}
    BY <1>2, QuantitiesAreNumbers DEF ItemRows
  <2>2. PICK v \in Nat : v = row.version + 1
    BY <2>1
  <2>3. PICK left : left = row.quantity - 1 /\ left \in 0..MaxQuantity
    BY <2>1, QuantitiesAreNumbers
  <2>4. PICK status : status = (IF row.quantity <= 1 THEN "removed" ELSE "listed")
    OBVIOUS
  <2>5. (IF row.quantity > 1 THEN row.quantity - 1 ELSE 0) = left
    BY <2>1, <2>3
  <2>6. n = [row EXCEPT !.quantity = IF @ > 1 THEN @ - 1 ELSE 0,
                        !.status = IF row.quantity <= 1 THEN "removed" ELSE @,
                        !.version = @ + 1]
    BY <1>2 DEF Decrement
  <2>7. n = [row EXCEPT !.quantity = left, !.status = status, !.version = v]
    BY <1>2, <2>2, <2>4, <2>5, <2>6 DEF ItemRows
  <2>8. n \in ItemRows
    BY <2>2, <2>3, <2>4, <2>7 DEF ItemRows
  <2>9. /\ n.user = row.user /\ n.goods = row.goods /\ n.kind = row.kind
        /\ n.version = v /\ n.quantity = left /\ n.status = status
    BY <2>7 DEF ItemRows
  <2>10. status = "removed" <=> row.quantity = 1
    BY <2>1, <2>4
  <2>11. status = "listed" => left > 0
    BY <2>1, <2>3, <2>4
  <2>12. QED  BY <1>2, <2>2, <2>3, <2>8, <2>9, <2>10, <2>11
<1>3. QED  BY <1>1, <1>2

LEMMA CompletingKeepsInv ==
    ASSUME Inv, NEW r \in Requests, CompleteTradeCommit(r)
    PROVE  /\ Inv' /\ RowsMoveOn
           /\ req[r].trade \in Trades /\ \A t \in Trades : t # req[r].trade => trades'[t] = trades[t]
           /\ \A i \in Items :
                 IF Listed(i) /\ i \in trades[req[r].trade].items
                 THEN Loses(i, 1)
                 ELSE \/ items'[i] = items[i]
                      \/ IsWishFor(i, req[r].trade) /\ Loses(i, 1)
<1>1. PICK s : s = req[r]
  OBVIOUS
<1>2. PICK t : t = s.trade
  OBVIOUS
<1>3. /\ s.pc = "lock" /\ s.op = "complete" /\ s.todo = {} /\ Return(r) /\ UNCHANGED alive
      /\ trades' = [trades EXCEPT ![t].status = "completed"]
      /\ items' = [i \in Items |-> IF s.amounts[i] > 0 THEN Decrement(items[i], s.amounts[i]) ELSE items[i]]
  BY <1>1, <1>2 DEF CompleteTradeCommit, Doing
<1>4. t \in Trades /\ CompletionInOrder(r, s)
  BY <1>1, <1>2, <1>3, RequestsHaveTheirFields DEF Inv, RequestsAreInOrder, InOrder
<1>5. trades[t] # NoRow /\ trades[t] \in Trade /\ trades \in [Trades -> Trade \cup {NoRow}]
  BY <1>2, <1>4, RowsHaveTheirFields DEF Inv, TypeOK, CompletionInOrder, Open
<1>6. PICK n : n = [trades[t] EXCEPT !.status = "completed"]
  OBVIOUS
<1>7. /\ n \in Trade
      /\ n.proposer = trades[t].proposer /\ n.receiver = trades[t].receiver /\ n.items = trades[t].items
  BY <1>5, <1>6 DEF Trade
<1>8. trades'[t] = n /\ n # NoRow /\ \A u \in Trades : u # t => trades'[u] = trades[u]
  BY <1>3, <1>4, <1>5, <1>6, <1>7, NoRowIsNoRow
<1>9. \A i \in Items :
         /\ s.amounts[i] \in {0, 1}
         /\ i \in trades[t].items => s.amounts[i] = 1
         /\ s.amounts[i] = 1 /\ i \notin trades[t].items => IsWishFor(i, t)
         /\ s.amounts[i] = 1 => itemLock[i] = r /\ Added(i)
  <2> SUFFICES ASSUME NEW i \in Items
               PROVE  /\ s.amounts[i] \in {0, 1}
                      /\ i \in trades[t].items => s.amounts[i] = 1
                      /\ s.amounts[i] = 1 /\ i \notin trades[t].items => IsWishFor(i, t)
                      /\ s.amounts[i] = 1 => itemLock[i] = r /\ Added(i)
    OBVIOUS
  <2>1. /\ s.amounts[i] \in {0, 1}
        /\ i \in trades[t].items => s.amounts[i] = 1
        /\ s.amounts[i] = 1 /\ i \notin trades[t].items => IsWishFor(i, t)
        /\ s.amounts[i] = 1 => itemLock[i] = r
    BY <1>2, <1>3, <1>4 DEF CompletionInOrder
  <2>2. i \in trades[t].items => Added(i)
    BY <1>4, <1>5 DEF Inv, RowsAreInOrder, TradesHoldGives, GiveOf
  <2>3. QED  BY <2>1, <2>2 DEF IsWishFor
<1>10. \A i \in Items :
          \/ s.amounts[i] = 0 /\ items'[i] = items[i]
          \/ /\ s.amounts[i] = 1
             /\ items'[i] \in ItemRows
             /\ \/ ~Listed(i) /\ items'[i] = items[i]
                \/ Changed(i) /\ Loses(i, 1)
  <2> SUFFICES ASSUME NEW i \in Items, s.amounts[i] = 1
               PROVE  /\ items'[i] \in ItemRows
                      /\ \/ ~Listed(i) /\ items'[i] = items[i]
                         \/ Changed(i) /\ Loses(i, 1)
    BY <1>3, <1>9
  <2>1. items'[i] = Decrement(items[i], 1)
    BY <1>3
  <2>2. Added(i) /\ items[i] \in ItemRows
    BY <1>9, RowsHaveTheirFields DEF Inv
  <2>3. items[i].status = "listed" => items[i].quantity > 0
    BY <2>2 DEF Inv, RowsAreInOrder, ListedHaveStock, Listed
  <2>4. PICK row : row = items[i]
    OBVIOUS
  <2>5. PICK new : new = items'[i]
    OBVIOUS
  <2>6. /\ new \in ItemRows
        /\ row.status # "listed" => new = row
        /\ row.status = "listed" =>
              /\ new.user = row.user /\ new.goods = row.goods /\ new.kind = row.kind
              /\ new.version = row.version + 1 /\ new.quantity = row.quantity - 1
              /\ new.status = "removed" <=> row.quantity = 1
              /\ new.status = "listed" => new.quantity > 0
    BY <2>1, <2>2, <2>3, <2>4, <2>5, OnePointIsTaken
  <2>7. QED  BY <2>2, <2>4, <2>5, <2>6, NoRowIsNoRow DEF Changed, Loses, Listed, Added
<1>11. RowsMoveOn
  BY <1>5, <1>7, <1>8, <1>10 DEF RowsMoveOn
<1>12. RowsAreInOrder'
  BY <1>11, RowsThatMoveOnStayInOrder
<1>13. items' \in [Items -> ItemRows \cup {NoRow}]
  <2>1. \A i \in Items : items'[i] \in ItemRows \cup {NoRow}
    BY <1>10 DEF Inv, TypeOK
  <2>2. items' = [i \in Items |-> items'[i]]
    BY <1>3
  <2>3. QED  BY <2>1, <2>2
<1>14. trades' \in [Trades -> Trade \cup {NoRow}] /\ alive' \in [Users -> BOOLEAN]
  <2>1. trades' = [trades EXCEPT ![t] = n]
    BY <1>3, <1>4, <1>5, <1>6
  <2>2. QED  BY <1>3, <1>5, <1>7, <2>1 DEF Inv, TypeOK
<1>15. \A i \in Items : Added(i) => items'[i] = items[i] \/ (Changed(i) /\ itemLock[i] \in {r, NoRequest})
  BY <1>9, <1>10
<1>16. \A q \in Requests : q # r /\ Doing(q, "complete", "lock") =>
          trades'[req[q].trade] = trades[req[q].trade]
  <2> SUFFICES ASSUME NEW q \in Requests, q # r, Doing(q, "complete", "lock")
               PROVE  trades'[req[q].trade] = trades[req[q].trade]
    OBVIOUS
  <2>1. Doing(r, "complete", "lock") /\ req[r].trade = t
    BY <1>1, <1>2, <1>3 DEF Doing
  <2>2. req[q].trade # t
    BY <2>1 DEF Inv, CompletionsAreApart
  <2>3. req[q].trade \in Trades
    BY RequestsHaveTheirFields DEF Inv, Doing
  <2>4. QED  BY <1>8, <2>2, <2>3
<1>17. Inv'
  BY <1>3, <1>12, <1>13, <1>14, <1>15, <1>16, WritesKeepInv
<1>18. \A i \in Items :
          IF Listed(i) /\ i \in trades[t].items
          THEN Loses(i, 1)
          ELSE items'[i] = items[i] \/ (IsWishFor(i, t) /\ Loses(i, 1))
  <2> TAKE i \in Items
  <2>1. CASE s.amounts[i] = 0
    BY <1>9, <1>10, <2>1
  <2>2. CASE s.amounts[i] = 1 /\ ~Listed(i)
    BY <1>10, <2>2 DEF Changed
  <2>3. CASE s.amounts[i] = 1 /\ Listed(i)
    <3>1. Loses(i, 1)
      BY <1>10, <2>3
    <3>2. i \notin trades[t].items => IsWishFor(i, t)
      BY <1>9, <2>3
    <3>3. QED  BY <2>3, <3>1, <3>2
  <2>4. QED  BY <1>9, <2>1, <2>2, <2>3
<1>19. QED  BY <1>1, <1>2, <1>4, <1>8, <1>11, <1>17, <1>18

LEMMA WithdrawingKeepsInv ==
    ASSUME Inv, NEW r \in Requests, DeleteAccountCommit(r)
    PROVE  Inv' /\ RowsMoveOn
<1>1. PICK s : s = req[r]
  OBVIOUS
<1>2. /\ s.pc = "lock" /\ s.op = "leave" /\ s.todo = {} /\ Return(r) /\ UNCHANGED trades
      /\ alive' = [alive EXCEPT ![s.user] = FALSE]
      /\ items' = [i \in Items |-> IF i \in s.listed THEN RemoveListed(items[i]) ELSE items[i]]
  BY <1>1 DEF DeleteAccountCommit, Doing
<1>3. \A i \in Items : i \in s.listed => itemLock[i] = r /\ Added(i)
  BY <1>1, <1>2 DEF Inv, RequestsAreInOrder, InOrder
<1>4. \A i \in Items :
         /\ items'[i] \in ItemRows \cup {NoRow}
         /\ items'[i] = items[i] \/ (Changed(i) /\ i \in s.listed)
  <2> SUFFICES ASSUME NEW i \in Items
               PROVE  /\ items'[i] \in ItemRows \cup {NoRow}
                      /\ items'[i] = items[i] \/ (Changed(i) /\ i \in s.listed)
    OBVIOUS
  <2>1. CASE i \notin s.listed
    BY <1>2, <2>1 DEF Inv, TypeOK
  <2>2. CASE i \in s.listed /\ Listed(i)
    <3>1. PICK row : row = items[i]
      OBVIOUS
    <3>2. row \in ItemRows /\ row.status = "listed"
      BY <2>2, <3>1, RowsHaveTheirFields DEF Inv, Listed
    <3>3. PICK v \in Nat : v = row.version + 1
      BY <3>2 DEF ItemRows
    <3>4. PICK n : n = items'[i]
      OBVIOUS
    <3>5. n = [row EXCEPT !.status = "removed", !.version = @ + 1]
      BY <1>2, <2>2, <3>1, <3>2, <3>4 DEF RemoveListed
    <3>6. n = [row EXCEPT !.status = "removed", !.version = v]
      BY <3>3, <3>5
    <3>7. n \in ItemRows
      BY <3>2, <3>3, <3>6 DEF ItemRows
    <3>8. n.user = row.user /\ n.goods = row.goods /\ n.kind = row.kind /\ n.version = v /\ n.status = "removed"
      BY <3>2, <3>6 DEF ItemRows
    <3>9. QED  BY <2>2, <3>1, <3>3, <3>4, <3>7, <3>8, NoRowIsNoRow DEF Changed, Listed, Added
  <2>3. CASE i \in s.listed /\ ~Listed(i)
    <3>1. items[i].status # "listed"
      BY <1>3, <2>3 DEF Listed
    <3>2. QED  BY <1>2, <2>3, <3>1 DEF RemoveListed, Inv, TypeOK
  <2>4. QED  BY <2>1, <2>2, <2>3
<1>5. items' \in [Items -> ItemRows \cup {NoRow}]
  <2>1. items' = [i \in Items |-> items'[i]]
    BY <1>2
  <2>2. QED  BY <1>4, <2>1
<1>6. alive' \in [Users -> BOOLEAN]
  BY <1>2 DEF Inv, TypeOK
<1>7. QED  BY <1>2, <1>3, <1>4, <1>5, <1>6, ChangesKeepInv

-----------------------------------------------------------------------------
(* The theorems. *)

LEMMA StartIsInOrder == Init => Inv
<1> SUFFICES ASSUME Init
             PROVE  Inv
  OBVIOUS
<1>1. TypeOK
  BY RestIsInOrder DEF Init, TypeOK
<1>2. \A r \in Requests : req[r].pc = "idle"
  BY RestIsInOrder DEF Init
<1>3. RequestsAreInOrder /\ CompletionsAreApart
  BY <1>2 DEF RequestsAreInOrder, InOrder, CompletionsAreApart, Doing
<1>4. RowsAreInOrder
  BY DEF Init, RowsAreInOrder, ListedOnce, ListedHaveStock, TradesHoldGives, OnePointOfEachGoods, Listed, Added
<1>5. QED  BY <1>1, <1>3, <1>4 DEF Inv

LEMMA StepsAreInOrder ==
    ASSUME Inv, [Next]_vars
    PROVE  /\ Inv'
           /\ \A i \in Items : Added(i) => items'[i] = items[i] \/ Changed(i)
<1>1. ASSUME NEW r \in Requests, BeginRequest(r)
      PROVE  Inv' /\ RowsMoveOn
  BY <1>1, AddingBegins, ScreensOpen, ProposalsBegin, CompletionsBegin, WithdrawalsBegin DEF BeginRequest
<1>2. ASSUME NEW r \in Requests, SendScreen(r)
      PROVE  Inv' /\ RowsMoveOn
  BY <1>2, SendingKeepsInv
<1>3. ASSUME NEW r \in Requests, Continue(r)
      PROVE  Inv' /\ \A i \in Items : Added(i) => items'[i] = items[i] \/ Changed(i)
  <2>1. ASSUME NEW i \in Items, NEW g \in Goods, NEW k \in Kinds, NEW quantity \in Quantities,
               CreateItemInsert(r, i, g, k, quantity)
        PROVE  Inv' /\ \A j \in Items : Added(j) => items'[j] = items[j]
    BY <2>1, AddingKeepsInv
  <2>2. CASE LockInOrder(r) \/ LockAnyNext(r)
    BY <2>2, LockingKeepsInv DEF RowsMoveOn
  <2>3. CASE ValidateTrade(r)
    BY <2>3, ChecksKeepInv DEF RowsMoveOn
  <2>4. ASSUME NEW t \in Trades, CreateTradeCommit(r, t)
        PROVE  Inv' /\ UNCHANGED items
    BY <2>4, ProposingKeepsInv
  <2>5. CASE CompleteTradeCommit(r)
    BY <2>5, CompletingKeepsInv DEF RowsMoveOn
  <2>6. CASE DeleteAccountCommit(r)
    BY <2>6, WithdrawingKeepsInv DEF RowsMoveOn
  <2>7. QED  BY <1>3, <2>1, <2>2, <2>3, <2>4, <2>5, <2>6 DEF Continue
<1>4. ASSUME NEW r \in Requests, Abort(r)
      PROVE  Inv' /\ RowsMoveOn
  BY <1>4, RefusalsKeepInv DEF Abort
<1>5. ASSUME NEW t \in Trades, EndTrade(t)
      PROVE  Inv' /\ RowsMoveOn
  BY <1>5, EndsKeepInv
<1>6. CASE UNCHANGED vars
  BY <1>6 DEF vars, database, locks, Inv, TypeOK, RequestsAreInOrder, InOrder, ScreenInOrder, ProposalInOrder,
              CompletionInOrder, ListedGiveOf, GiveOf, IsWishFor, Recipient, Open, CompletionsAreApart, Doing, RowsAreInOrder,
              ListedOnce, ListedHaveStock, TradesHoldGives, OnePointOfEachGoods, Listed, Added
<1>7. RowsMoveOn => \A i \in Items : Added(i) => items'[i] = items[i] \/ Changed(i)
  BY DEF RowsMoveOn
<1>8. QED  BY <1>1, <1>2, <1>3, <1>4, <1>5, <1>6, <1>7 DEF Next

\* Every reachable state is in order.
THEOREM InvHolds == Spec => []Inv
<1>1. Init => Inv
  BY StartIsInOrder
<1>2. Inv /\ [Next]_vars => Inv'
  BY StepsAreInOrder
<1>3. QED  BY <1>1, <1>2, PTL DEF Spec

\* The state has its type (TypeOK).
THEOREM TypesHold == Spec => []TypeOK
BY InvHolds, PTL DEF Inv

\* Whatever is in a list has a point to give (ListedHaveStock, of update and
\* DecrementTradedItems together).
THEOREM ListsHoldStock == Spec => []ListedHaveStock
<1>1. Inv => ListedHaveStock
  BY DEF Inv, RowsAreInOrder
<1>2. QED  BY <1>1, InvHolds, PTL

\* No screen that can still be saved shows an old quantity (ScreensAreCurrent,
\* of the version that UpdateListedItem asks for).
THEOREM ScreensStayCurrent == Spec => []ScreensAreCurrent
<1>1. Inv => ScreensAreCurrent
  BY DEF Inv, RequestsAreInOrder, InOrder, ScreenInOrder, ScreensAreCurrent
<1>2. QED  BY <1>1, InvHolds, PTL

\* A trade has one point of each user's goods at most (OnePointOfEachGoods, of
\* the lock on the items and the unique index together).
THEOREM PointsAreOfDifferentGoods == Spec => []OnePointOfEachGoods
<1>1. Inv => OnePointOfEachGoods
  BY DEF Inv, RowsAreInOrder
<1>2. QED  BY <1>1, InvHolds, PTL

\* What has left a list rests (RemovedItemsRest, of the state that every UPDATE
\* of items asks for).
THEOREM WhatIsRemovedRests == Spec => RemovedItemsRest
<1>1. Inv /\ [Next]_vars => [\A i \in Items : Added(i) /\ ~Listed(i) => items'[i] = items[i]]_vars
  BY StepsAreInOrder DEF Changed
<1>2. QED  BY <1>1, InvHolds, PTL DEF Spec, RemovedItemsRest

LEMMA WhoWritesTrades ==
    ASSUME Next
    PROVE  \/ UNCHANGED trades
           \/ \E r \in Requests, t \in Trades : CreateTradeCommit(r, t)
           \/ \E r \in Requests : CompleteTradeCommit(r)
           \/ \E t \in Trades : EndTrade(t)
<1>1. ASSUME NEW r \in Requests, BeginRequest(r)
      PROVE  UNCHANGED trades
  BY <1>1 DEF BeginRequest, CreateItemBegin, OpenItemScreen, CreateTradeBegin, CompleteTradeBegin,
              DeleteAccountBegin, Begin, database
<1>2. ASSUME NEW r \in Requests, SendScreen(r)
      PROVE  UNCHANGED trades
  BY <1>2 DEF SendScreen, UpdateItem, DeleteItem, ChangeItem
<1>3. ASSUME NEW r \in Requests, Continue(r)
      PROVE  \/ UNCHANGED trades
             \/ \E t \in Trades : CreateTradeCommit(r, t)
             \/ CompleteTradeCommit(r)
  BY <1>3 DEF Continue, CreateItemInsert, LockInOrder, LockAnyNext, LockItem, ValidateTrade,
              DeleteAccountCommit, Refuse, database
<1>4. ASSUME NEW r \in Requests, Abort(r)
      PROVE  UNCHANGED trades
  BY <1>4 DEF Abort, Refuse, database
<1>5. QED  BY <1>1, <1>2, <1>3, <1>4 DEF Next

\* What a proposal holds is in its owners' lists when it appears, and each of
\* the two gives something (ProposedItemsAreListed, of the locks that
\* ValidateTrade reads under).
THEOREM ProposalsHoldListedItems == Spec => ProposedItemsAreListed
<1> DEFINE new(t) == trades[t] = NoRow /\ trades'[t] # NoRow
           fits(t) ==
              /\ \A i \in trades'[t].items :
                    \E u \in {trades'[t].proposer, trades'[t].receiver} : ListedGiveOf(i, u)
              /\ \A u \in {trades'[t].proposer, trades'[t].receiver} :
                    \E i \in trades'[t].items : items[i].user = u
<1>1. ASSUME Inv, Next, NEW t \in Trades, new(t)
      PROVE  fits(t)
  <2>1. CASE UNCHANGED trades
    BY <1>1, <2>1
  <2>2. CASE \E r \in Requests, u \in Trades : CreateTradeCommit(r, u)
    <3>1. PICK r \in Requests, u \in Trades : CreateTradeCommit(r, u)
      BY <2>2
    <3>2. u = t
      BY <1>1, <3>1, ProposingKeepsInv
    <3>3. QED  BY <1>1, <3>1, <3>2, ProposingKeepsInv
  <2>3. CASE \E r \in Requests : CompleteTradeCommit(r)
    BY <1>1, <2>3, CompletingKeepsInv DEF RowsMoveOn
  <2>4. CASE \E u \in Trades : EndTrade(u)
    BY <1>1, <2>4, EndsKeepInv DEF RowsMoveOn
  <2>5. QED  BY <1>1, <2>1, <2>2, <2>3, <2>4, WhoWritesTrades
<1>2. Inv /\ [Next]_vars => [\A t \in Trades : new(t) => fits(t)]_vars
  BY <1>1
<1>3. [\A t \in Trades : new(t) => fits(t)]_vars
         => [\A t \in Trades :
               trades[t] = NoRow /\ trades'[t] # NoRow =>
                  LET row == trades'[t]
                  IN  /\ \A i \in row.items :
                            \E u \in {row.proposer, row.receiver} : ListedGiveOf(i, u)
                      /\ \A u \in {row.proposer, row.receiver} :
                            \E i \in row.items : items[i].user = u]_vars
  OBVIOUS
<1>4. QED  BY <1>2, <1>3, InvHolds, PTL DEF Spec, ProposedItemsAreListed

\* A completion takes the points it promises and no others
\* (CompletionTakesOnePoint, of DecrementTradedItems, whose amounts were read
\* before its rows were locked).
THEOREM CompletionsTakeOnePoint == Spec => CompletionTakesOnePoint
<1> DEFINE completed(t) == Open(t) /\ trades'[t] # trades[t] /\ trades'[t].status = "completed"
           takes(t) ==
              \A i \in Items :
                 IF Listed(i) /\ i \in trades[t].items
                 THEN Loses(i, 1)
                 ELSE \/ items'[i] = items[i]
                      \/ /\ items[i].kind = "want" /\ Loses(i, 1)
                         /\ \E j \in trades[t].items :
                               /\ items[j].goods = items[i].goods
                               /\ items[i].user = Recipient(t, j)
<1>1. ASSUME Inv, Next, NEW t \in Trades, completed(t)
      PROVE  takes(t)
  <2>1. CASE UNCHANGED trades
    BY <1>1, <2>1
  <2>2. CASE \E r \in Requests, u \in Trades : CreateTradeCommit(r, u)
    <3>1. PICK r \in Requests, u \in Trades : CreateTradeCommit(r, u)
      BY <2>2
    <3>2. trades[u] = NoRow /\ trades'[t] = trades[t]
      BY <1>1, <3>1, ProposingKeepsInv DEF CreateTradeCommit, Open
    <3>3. QED  BY <1>1, <3>2
  <2>3. CASE \E r \in Requests : CompleteTradeCommit(r)
    <3>1. PICK r \in Requests : CompleteTradeCommit(r)
      BY <2>3
    <3>2. req[r].trade = t
      BY <1>1, <3>1, CompletingKeepsInv
    <3>3. \A i \in Items :
             IF Listed(i) /\ i \in trades[t].items
             THEN Loses(i, 1)
             ELSE \/ items'[i] = items[i]
                  \/ IsWishFor(i, t) /\ Loses(i, 1)
      BY <1>1, <3>1, <3>2, CompletingKeepsInv
    <3>4. QED  BY <3>3 DEF IsWishFor
  <2>4. CASE \E u \in Trades : EndTrade(u)
    <3>1. PICK u \in Trades : EndTrade(u)
      BY <2>4
    <3>2. trades' = [trades EXCEPT ![u].status = "over"] /\ trades \in [Trades -> Trade \cup {NoRow}] /\ trades[u] # NoRow
      BY <1>1, <3>1 DEF EndTrade, Open, Inv, TypeOK
    <3>3. u = t => trades'[t].status = "over"
      BY <3>2 DEF Trade
    <3>4. u # t => trades'[t] = trades[t]
      BY <3>2
    <3>5. QED  BY <1>1, <3>3, <3>4
  <2>5. QED  BY <1>1, <2>1, <2>2, <2>3, <2>4, WhoWritesTrades
<1>2. Inv /\ [Next]_vars => [\A t \in Trades : completed(t) => takes(t)]_vars
  BY <1>1
<1>3. [\A t \in Trades : completed(t) => takes(t)]_vars
         => [\A t \in Trades :
               Open(t) /\ trades'[t] # trades[t] /\ trades'[t].status = "completed" =>
                  \A i \in Items :
                      IF Listed(i) /\ i \in trades[t].items
                      THEN Loses(i, 1)
                      ELSE \/ items'[i] = items[i]
                           \/ /\ items[i].kind = "want" /\ Loses(i, 1)
                              /\ \E j \in trades[t].items :
                                    /\ items[j].goods = items[i].goods
                                    /\ items[i].user = Recipient(t, j)]_vars
  OBVIOUS
<1>4. QED  BY <1>2, <1>3, InvHolds, PTL DEF Spec, CompletionTakesOnePoint

-----------------------------------------------------------------------------
(* What the pages of matches show. *)

\* A user is a candidate for whoever is one for the user.
LEMMA CandidatesAreMutual ==
    ASSUME NEW u \in Users, NEW v \in ListMatchCandidateUsers(u), alive[u]
    PROVE  u \in ListMatchCandidateUsers(v)
<1>1. v \in Users /\ v \in Meeting(u, "give", "want") /\ v \in Meeting(u, "want", "give") /\ v # u
  BY DEF ListMatchCandidateUsers, Meeting
<1>2. u \in Meeting(v, "want", "give") /\ u \in Meeting(v, "give", "want")
  BY <1>1 DEF Meeting
<1>3. QED  BY <1>1, <1>2 DEF ListMatchCandidateUsers

\* Who meets somebody's wish has something to give: the smaller of two
\* quantities, each of at least one point.
LEMMA WishesAreMet ==
    ASSUME TypeOK, ListedHaveStock, NEW giver \in Users, NEW wanter \in Users,
           NEW i \in ListedOf(giver, "give"), NEW j \in ListedOf(wanter, "want"),
           items[i].goods = items[j].goods
    PROVE  Tradable(giver, wanter, Items) # {}
<1>1. /\ i \in Items /\ Listed(i) /\ items[i].kind = "give" /\ items[i].user = giver
      /\ j \in Items /\ Listed(j) /\ items[j].kind = "want" /\ items[j].user = wanter
  BY DEF ListedOf, ListedBy
<1>2. items[i].quantity \in 1..MaxQuantity /\ items[j].quantity \in 1..MaxQuantity
  <2>1. items[i].quantity \in 0..MaxQuantity /\ items[j].quantity \in 0..MaxQuantity
    BY <1>1, RowsHaveTheirFields DEF Listed
  <2>2. items[i].quantity > 0 /\ items[j].quantity > 0
    BY <1>1 DEF ListedHaveStock
  <2>3. QED  BY <2>1, <2>2, QuantitiesAreNumbers
<1>3. PICK n \in 1..MaxQuantity :
          n = IF items[i].quantity < items[j].quantity THEN items[i].quantity ELSE items[j].quantity
  BY <1>2
<1>4. PICK offer \in [item: Items, quantity: 1..MaxQuantity] : offer.item = i /\ offer.quantity = n
  <2>1. [item |-> i, quantity |-> n] \in [item: Items, quantity: 1..MaxQuantity]
    BY <1>1
  <2>2. QED  BY <2>1
<1>5. offer \in Tradable(giver, wanter, Items)
  BY <1>1, <1>3, <1>4 DEF Tradable
<1>6. QED  BY <1>5

\* The rows that one of the two statements loads for a page are enough: what
\* can be traded of the whole lists can be traded of them.
LEMMA LoadedRowsSuffice ==
    ASSUME NEW loaded \in SUBSET Items, NEW giver \in Users, NEW wanter \in Users,
           \A i \in ListedOf(giver, "give"), j \in ListedOf(wanter, "want") :
               items[i].goods = items[j].goods => i \in loaded /\ j \in loaded
    PROVE  Tradable(giver, wanter, loaded) = Tradable(giver, wanter, Items)
<1>1. ASSUME NEW offer \in Tradable(giver, wanter, loaded)
      PROVE  offer \in Tradable(giver, wanter, Items)
  BY DEF Tradable
<1>2. ASSUME NEW offer \in Tradable(giver, wanter, Items)
      PROVE  offer \in Tradable(giver, wanter, loaded)
  <2>1. PICK i \in Items, n \in 1..MaxQuantity : offer = [item |-> i, quantity |-> n]
    BY DEF Tradable
  <2>2. offer.item = i /\ offer.quantity = n
    BY <2>1
  <2>3. Listed(i) /\ items[i].kind = "give" /\ items[i].user = giver
    BY <2>2 DEF Tradable
  <2>4. PICK j \in Items :
            /\ Listed(j) /\ items[j].kind = "want" /\ items[j].user = wanter
            /\ items[j].goods = items[i].goods
            /\ n = IF items[i].quantity < items[j].quantity THEN items[i].quantity ELSE items[j].quantity
    BY <2>2 DEF Tradable
  <2>5. i \in ListedOf(giver, "give") /\ j \in ListedOf(wanter, "want")
    BY <2>3, <2>4 DEF ListedOf, ListedBy
  <2>6. i \in loaded /\ j \in loaded
    BY <2>4, <2>5
  <2>7. offer \in [item: loaded, quantity: 1..MaxQuantity]
    BY <2>1, <2>6
  <2>8. QED  BY <2>2, <2>3, <2>4, <2>6, <2>7 DEF Tradable
<1>3. QED  BY <1>1, <1>2

\* Candidates have accounts, have the viewer for a candidate, and can trade
\* what the page offers (CandidatesCanTrade, of ListMatchCandidateUsers and of
\* NewMatch over the rows of ListListedItemsMatchingUsers).
THEOREM CandidatesTrade == Spec => []CandidatesCanTrade
<1>1. ASSUME TypeOK, ListedHaveStock
      PROVE  CandidatesCanTrade
  <2> SUFFICES ASSUME NEW u \in Users, NEW v \in ListMatchCandidateUsers(u)
               PROVE  LET partners == ListMatchCandidateUsers(u)
                          matches == findMatches(u, partners)
                      IN  /\ alive[v] /\ (alive[u] => u \in ListMatchCandidateUsers(v))
                          /\ IsTradable(matches[v])
                          /\ matches[v] = NewMatch(u, v, Items)
    BY DEF CandidatesCanTrade
  <2> DEFINE partners == ListMatchCandidateUsers(u)
             loaded == ListListedItemsMatchingUsers(partners, {u})
                         \cup ListListedItemsMatchingUsers({u}, partners)
  <2>1. v \in Users /\ alive[v] /\ v \in Meeting(u, "give", "want") /\ v \in Meeting(u, "want", "give")
    BY DEF ListMatchCandidateUsers, Meeting
  <2>2. loaded \in SUBSET Items
    BY DEF ListListedItemsMatchingUsers
  <2>3. ASSUME NEW i \in Items, NEW j \in Items, Listed(i), Listed(j), items[i].user = u, items[j].user = v,
               items[i].goods = items[j].goods, items[i].kind # items[j].kind
        PROVE  i \in loaded /\ j \in loaded
    BY <2>3 DEF ListListedItemsMatchingUsers
  <2>4. ASSUME NEW i \in ListedOf(v, "give"), NEW j \in ListedOf(u, "want"), items[i].goods = items[j].goods
        PROVE  i \in loaded /\ j \in loaded
    BY <2>3, <2>4 DEF ListedOf, ListedBy
  <2>5. ASSUME NEW i \in ListedOf(u, "give"), NEW j \in ListedOf(v, "want"), items[i].goods = items[j].goods
        PROVE  i \in loaded /\ j \in loaded
    BY <2>3, <2>5 DEF ListedOf, ListedBy
  <2>6. findMatches(u, partners)[v] = NewMatch(u, v, loaded)
    BY DEF findMatches
  <2> HIDE DEF loaded
  <2>7. /\ Tradable(v, u, loaded) = Tradable(v, u, Items)
        /\ Tradable(u, v, loaded) = Tradable(u, v, Items)
    BY <2>1, <2>2, <2>4, <2>5, LoadedRowsSuffice
  <2>8. Tradable(v, u, Items) # {} /\ Tradable(u, v, Items) # {}
    <3>1. PICK i \in ListedOf(v, "give"), j \in ListedOf(u, "want") : items[i].goods = items[j].goods
      BY <2>1 DEF Meeting
    <3>2. PICK k \in ListedOf(v, "want"), l \in ListedOf(u, "give") : items[k].goods = items[l].goods
      BY <2>1 DEF Meeting
    <3>3. QED  BY <1>1, <2>1, <3>1, <3>2, WishesAreMet
  <2>9. NewMatch(u, v, loaded) = NewMatch(u, v, Items) /\ IsTradable(NewMatch(u, v, Items))
    BY <2>7, <2>8 DEF NewMatch, IsTradable
  <2>10. QED  BY <2>1, <2>6, <2>9, CandidatesAreMutual
<1>2. Inv => TypeOK /\ ListedHaveStock
  BY DEF Inv, RowsAreInOrder
<1>3. QED  BY <1>1, <1>2, InvHolds, PTL

-----------------------------------------------------------------------------
(* Who waits for whom. *)

\* The items an operation is about.
Chosen(s, i) ==
    \/ s.op = "propose" /\ i \in s.receive \cup s.give
    \/ s.op = "complete" /\ s.amounts[i] > 0
    \/ s.op = "leave" /\ i \in s.listed

\* A proposal holds both users; a deletion its user, who is in no open trade
\* and owns what the deletion is about.
InPlace(r) ==
    /\ Doing(r, "propose", "lock") \/ Doing(r, "propose", "write") =>
          userLock[req[r].user] = r /\ userLock[req[r].with] = r
    /\ Doing(r, "leave", "lock") =>
          /\ userLock[req[r].user] = r
          /\ \A t \in Trades : Open(t) => ~InTrade(req[r].user, t)
          /\ \A i \in req[r].listed : items[i].user = req[r].user
    /\ req[r].pc = "lock" => \A i \in req[r].todo : Chosen(req[r], i)

\* A row that r has come to hold is none it still needs, and unless r deletes
\* an account it is below all of those.
Takes(r, i) ==
    /\ req[r].pc \in {"lock", "write"}
    /\ Chosen(req[r], i)
    /\ i \notin req[r].todo
    /\ req[r].op # "leave" => \A j \in req[r].todo : i < j

LockedItems == {i \in Items : itemLock[i] # NoRequest}

WaitInv ==
    /\ \A r \in Requests : InPlace(r)
    /\ \A r \in Requests, i \in Items : itemLock[i] = r => Takes(r, i)
    /\ IsFiniteSet(LockedItems)

\* A finite set of numbers has a greatest one: the one that the fewest exceed.
LEMMA FiniteSetsHaveMaxima ==
    ASSUME NEW S \in SUBSET Nat, IsFiniteSet(S), S # {}
    PROVE  \E x \in S : \A y \in S : y <= x
<1> DEFINE Exceeding(x) == {y \in S : y > x}
           Counts == {Cardinality(Exceeding(x)) : x \in S}
<1>1. \A x \in S : IsFiniteSet(Exceeding(x)) /\ Cardinality(Exceeding(x)) \in Nat
  <2>1. \A x \in S : Exceeding(x) \in SUBSET S
    OBVIOUS
  <2>2. QED  BY <2>1, FS_Subset, FS_CardinalityType
<1>2. Counts \subseteq Nat /\ Counts # {}
  BY <1>1
<1>3. PICK n \in Counts : \A k \in Counts : ~(<<k, n>> \in OpToRel(<, Nat))
  <2> HIDE DEF Counts
  <2>1. QED  BY <1>2, NatLessThanWellFounded, WFMin
<1>4. PICK x \in S : n = Cardinality(Exceeding(x))
  BY <1>3
<1>5. ASSUME NEW y \in S, y > x
      PROVE  FALSE
  <2>1. Exceeding(y) \subseteq Exceeding(x) /\ y \in Exceeding(x) \ Exceeding(y)
    <3>1. \A z \in S : z > y => z > x
      BY <1>5
    <3>2. y \in S /\ y > x /\ ~(y > y)
      BY <1>5
    <3>3. QED  BY <3>1, <3>2
  <2>2. Cardinality(Exceeding(y)) <= n /\ Cardinality(Exceeding(y)) # n
    BY <1>1, <1>4, <2>1, FS_Subset
  <2>3. Cardinality(Exceeding(y)) < n
    BY <1>1, <1>4, <2>2
  <2>4. <<Cardinality(Exceeding(y)), n>> \in OpToRel(<, Nat)
    BY <1>1, <1>4, <2>3 DEF OpToRel
  <2>5. QED  BY <1>3, <2>4
<1>6. QED  BY <1>5

\* Only a proposal of others locks what a deletion needs: no other proposal and
\* no other deletion holds its user, and no trade of its user is open that could
\* be completed.
LEMMA DeletionsWaitForProposals ==
    ASSUME Inv, WaitInv, NEW r \in Requests, Doing(r, "leave", "lock"), NEW q \in Blockers(r)
    PROVE  NamesItemsOf(q, req[r].user)
<1>0. q \in Requests /\ \E i \in Items : i \in req[r].todo /\ itemLock[i] = q
  BY DEF Blockers, Needs, Doing
<1> PICK i \in Items : i \in req[r].todo /\ itemLock[i] = q
  BY <1>0
<1>1. /\ req[r] \in [pc: {"lock"}, op: {"leave"}, user: Users, listed: SUBSET Items, todo: SUBSET Items]
      /\ InOrder(r, req[r])
  BY RequestsHaveTheirFields DEF Inv, Doing, RequestsAreInOrder
<1>2. PICK u \in Users : u = req[r].user
  BY <1>1
<1>3. /\ userLock[u] = r /\ i \in req[r].listed /\ items[i].user = u
      /\ \A t \in Trades : Open(t) => ~InTrade(u, t)
  BY <1>1, <1>2 DEF WaitInv, InPlace, Doing, Chosen
<1>4. Takes(q, i) /\ q # r
  BY <1>0 DEF WaitInv, Takes
<1>5. CASE (Doing(q, "propose", "lock") \/ Doing(q, "propose", "write")) /\ i \in req[q].receive \cup req[q].give
  <2>1. userLock[req[q].user] = q /\ userLock[req[q].with] = q
    BY <1>0, <1>5 DEF WaitInv, InPlace
  <2>2. u \notin {req[q].user, req[q].with}
    BY <1>3, <1>4, <2>1
  <2>3. QED  BY <1>2, <1>3, <1>5, <2>2 DEF NamesItemsOf
<1>6. CASE Doing(q, "complete", "lock") /\ req[q].amounts[i] > 0
  <2>1. PICK t : t = req[q].trade
    OBVIOUS
  <2>2. CompletionInOrder(q, req[q]) /\ t \in Trades
    BY <1>0, <1>6, <2>1, RequestsHaveTheirFields DEF Inv, RequestsAreInOrder, InOrder, Doing
  <2>3. Open(t) /\ trades[t] # NoRow /\ (i \in trades[t].items \/ IsWishFor(i, t))
    BY <1>6, <2>1, <2>2 DEF CompletionInOrder, Open
  <2>4. items[i].user \in {trades[t].proposer, trades[t].receiver}
    BY <2>2, <2>3 DEF Inv, RowsAreInOrder, TradesHoldGives, GiveOf, IsWishFor, Recipient
  <2>5. QED  BY <1>3, <2>2, <2>3, <2>4 DEF InTrade
<1>7. CASE Doing(q, "leave", "lock") /\ i \in req[q].listed
  BY <1>0, <1>3, <1>4, <1>7 DEF WaitInv, InPlace
<1>8. QED  BY <1>0, <1>4, <1>5, <1>6, <1>7, RequestsHaveTheirFields DEF Takes, Chosen, Doing, Inv

\* The others lock upwards: the holder of the highest row in a circle would
\* wait for a row above it.
LEMMA CirclesHoldADeletion ==
    ASSUME Inv, WaitInv, NEW circle \in SUBSET Requests, IsCircle(circle)
    PROVE  \E r \in circle : Doing(r, "leave", "lock")
<1> SUFFICES ASSUME \A r \in circle : ~Doing(r, "leave", "lock")
             PROVE  FALSE
  OBVIOUS
<1> DEFINE Held == {i \in Items : itemLock[i] \in circle}
<1>0. circle # {} /\ \A r \in circle : Blockers(r) \cap circle # {}
  BY DEF IsCircle
<1>1. ASSUME NEW r \in circle
      PROVE  ~Doing(r, "leave", "lock") /\ \E i \in Needs(r) : itemLock[i] \in circle
  BY <1>0 DEF Blockers
<1>2. Held # {}
  <2>1. PICK r \in circle : TRUE
    BY <1>0
  <2>2. PICK i \in Needs(r) : itemLock[i] \in circle
    BY <1>1
  <2>3. QED  BY <2>2 DEF Needs
<1>3. PICK i \in Held : \A j \in Held : j <= i
  <2>1. Held \in SUBSET LockedItems
    BY NoRequestIsNoRequest DEF LockedItems
  <2>2. IsFiniteSet(Held)
    BY <2>1, FS_Subset DEF WaitInv
  <2>3. Held \in SUBSET Nat
    BY ItemsAreOrdered
  <2> HIDE DEF Held
  <2>4. QED  BY <1>2, <2>2, <2>3, FiniteSetsHaveMaxima
<1>4. PICK r \in circle : itemLock[i] = r
  OBVIOUS
<1>5. Takes(r, i)
  BY <1>4 DEF WaitInv
<1>6. PICK j \in Needs(r) : itemLock[j] \in circle
  BY <1>1
<1>7. j \in req[r].todo /\ i < j
  <2>1. (Doing(r, "propose", "lock") \/ Doing(r, "complete", "lock")) /\ j \in NextInOrder(req[r].todo)
    BY <1>1, <1>5, <1>6 DEF Takes, Needs, Doing
  <2>2. QED  BY <1>5, <2>1 DEF Takes, Doing, NextInOrder
<1>8. j \in Held /\ j \in Nat /\ i \in Nat
  BY <1>6, ItemsAreOrdered DEF Needs
<1>9. j <= i
  BY <1>3, <1>8
<1>10. QED  BY <1>7, <1>8, <1>9

\* That deletion waits, in the circle, for somebody; so it does for a proposal.
LEMMA CirclesAreOfTheOneKind == Inv /\ WaitInv => CirclesNeedForeignItems
<1> SUFFICES ASSUME Inv, WaitInv, NEW circle \in SUBSET Requests, IsCircle(circle)
             PROVE  \E r, q \in circle :
                       Doing(r, "leave", "lock") /\ q \in Blockers(r) /\ NamesItemsOf(q, req[r].user)
  BY DEF CirclesNeedForeignItems
<1>1. PICK r \in circle : Doing(r, "leave", "lock")
  BY CirclesHoldADeletion
<1>2. PICK q \in Blockers(r) : q \in circle
  BY DEF IsCircle
<1>3. QED  BY <1>1, <1>2, DeletionsWaitForProposals

\* A step of r takes nothing from the others, gives no item to another user
\* and opens trades only between users r holds.
LEMMA StepsKeepWaitInv ==
    ASSUME Inv, WaitInv, NEW r \in Requests,
           \A q \in Requests : q # r => req'[q] = req[q],
           \A q \in Requests, i \in Items : q # r /\ itemLock'[i] = q => itemLock[i] = q,
           \A q \in Requests, u \in Users : q # r /\ userLock[u] = q => userLock'[u] = q,
           \A i \in Items : Added(i) => items'[i].user = items[i].user,
           \A t \in Trades : Open(t)' =>
              \/ Open(t) /\ trades'[t].proposer = trades[t].proposer /\ trades'[t].receiver = trades[t].receiver
              \/ userLock[trades'[t].proposer] = r /\ userLock[trades'[t].receiver] = r,
           InPlace(r)', \A i \in Items : itemLock'[i] = r => Takes(r, i)',
           IsFiniteSet(LockedItems')
    PROVE  WaitInv'
<1>1. ASSUME NEW q \in Requests PROVE InPlace(q)'
  <2>1. CASE q = r
    BY <2>1
  <2>2. CASE q # r
    <3>1. req'[q] = req[q] /\ InPlace(q)
      BY <2>2 DEF WaitInv
    <3>2. ASSUME Doing(q, "propose", "lock") \/ Doing(q, "propose", "write")
          PROVE  userLock'[req[q].user] = q /\ userLock'[req[q].with] = q
      <4>1. req[q].user \in Users /\ req[q].with \in Users
        BY <3>2, RequestsHaveTheirFields DEF Inv, Doing
      <4>2. QED  BY <2>2, <3>1, <3>2, <4>1 DEF InPlace
    <3>3. ASSUME Doing(q, "leave", "lock")
          PROVE  /\ userLock'[req[q].user] = q
                 /\ \A t \in Trades : Open(t)' => ~(req[q].user \in {trades'[t].proposer, trades'[t].receiver})
                 /\ \A i \in req[q].listed : items'[i].user = req[q].user
      <4>1. req[q].user \in Users /\ req[q].listed \in SUBSET Items /\ \A i \in req[q].listed : Added(i)
        BY <3>3, RequestsHaveTheirFields DEF Inv, Doing, RequestsAreInOrder, InOrder
      <4>2. /\ userLock[req[q].user] = q
            /\ \A t \in Trades : Open(t) => ~InTrade(req[q].user, t)
            /\ \A i \in req[q].listed : items[i].user = req[q].user
        BY <3>1, <3>3 DEF InPlace
      <4>3. ASSUME NEW t \in Trades, Open(t)', req[q].user \in {trades'[t].proposer, trades'[t].receiver}
            PROVE  FALSE
        BY <2>2, <4>2, <4>3 DEF InTrade
      <4>4. QED  BY <2>2, <4>1, <4>2, <4>3
    <3>4. QED  BY <3>1, <3>2, <3>3 DEF InPlace, Doing, InTrade, Chosen
  <2>3. QED  BY <2>1, <2>2
<1>2. ASSUME NEW q \in Requests, NEW i \in Items, itemLock'[i] = q
      PROVE  Takes(q, i)'
  <2>1. CASE q = r
    BY <1>2, <2>1
  <2>2. CASE q # r
    <3>1. req'[q] = req[q] /\ Takes(q, i)
      BY <1>2, <2>2 DEF WaitInv
    <3>2. QED  BY <3>1 DEF Takes, Chosen
  <2>3. QED  BY <2>1, <2>2
<1>3. QED  BY <1>1, <1>2 DEF WaitInv

LEMMA ReturnsKeepWaitInv ==
    ASSUME Inv, WaitInv, NEW r \in Requests, Return(r),
           \A i \in Items : Added(i) => items'[i].user = items[i].user,
           \A t \in Trades : Open(t)' =>
              \/ Open(t) /\ trades'[t].proposer = trades[t].proposer /\ trades'[t].receiver = trades[t].receiver
              \/ userLock[trades'[t].proposer] = r /\ userLock[trades'[t].receiver] = r
    PROVE  WaitInv'
<1>1. req'[r].pc = "idle" /\ \A q \in Requests : q # r => req'[q] = req[q]
  BY RestIsInOrder DEF Return, Inv, TypeOK
<1>2. \A q \in Requests, i \in Items : itemLock'[i] = q => q # r /\ itemLock[i] = q
  BY NoRequestIsNoRequest DEF Return
<1>3. \A q \in Requests, u \in Users : q # r /\ userLock[u] = q => userLock'[u] = q
  BY DEF Return
<1>4. InPlace(r)'
  BY <1>1 DEF InPlace, Doing
<1>5. LockedItems' \in SUBSET LockedItems
  BY DEF LockedItems, Return
<1>6. IsFiniteSet(LockedItems')
  BY <1>5, FS_Subset DEF WaitInv
<1>7. QED  BY <1>1, <1>2, <1>3, <1>4, <1>6, StepsKeepWaitInv

\* One who begins holds nothing yet; a proposal and a deletion take users.
LEMMA BeginningsKeepWaitInv ==
    ASSUME Inv, WaitInv, NEW r \in Requests, BeginRequest(r)
    PROVE  WaitInv'
<1>1. /\ req[r] = Idle /\ UNCHANGED database /\ UNCHANGED itemLock
      /\ \E s : req' = [req EXCEPT ![r] = s]
  BY DEF BeginRequest, CreateItemBegin, OpenItemScreen, CreateTradeBegin, CompleteTradeBegin,
         DeleteAccountBegin, Begin, LockUsers, locks
<1>2. \A q \in Requests : q # r => req'[q] = req[q]
  BY <1>1 DEF Inv, TypeOK
<1>3. \A i \in Items : itemLock[i] # r
  BY <1>1, RestIsInOrder DEF WaitInv, Takes
<1>4. alive' = alive /\ items' = items /\ trades' = trades
  BY <1>1 DEF database
<1>5. \A q \in Requests, u \in Users : userLock[u] = q => userLock'[u] = q
  BY NoRequestIsNoRequest
     DEF BeginRequest, CreateItemBegin, OpenItemScreen, CreateTradeBegin, CompleteTradeBegin,
         DeleteAccountBegin, LockUsers, locks
<1>6. InPlace(r)'
  <2>1. ASSUME NEW s, Begin(r, s), ~(s.pc \in {"lock", "write"} /\ s.op \in {"propose", "leave"}),
               s.pc = "lock" => \A i \in s.todo : Chosen(s, i)
        PROVE  InPlace(r)'
    <3>1. req'[r] = s
      BY <2>1 DEF Begin, Inv, TypeOK
    <3>2. QED  BY <2>1, <3>1 DEF InPlace, Doing, Chosen
  <2>2. ASSUME NEW u \in Users, CreateItemBegin(r, u)
        PROVE  InPlace(r)'
    BY <2>1, <2>2 DEF CreateItemBegin
  <2>3. ASSUME NEW u \in Users, NEW i \in Items, OpenItemScreen(r, u, i)
        PROVE  InPlace(r)'
    BY <2>1, <2>3 DEF OpenItemScreen
  <2>4. ASSUME NEW t \in Trades, CompleteTradeBegin(r, t)
        PROVE  InPlace(r)'
    <3>1. PICK amounts : amounts = Amounts(t)
      OBVIOUS
    <3>2. Begin(r, [pc |-> "lock", op |-> "complete", trade |-> t, amounts |-> amounts,
                    todo |-> {i \in Items : amounts[i] > 0}])
      BY <2>4, <3>1 DEF CompleteTradeBegin
    <3>3. QED  BY <2>1, <3>2 DEF Chosen
  <2>5. ASSUME NEW u \in Users, NEW v \in Users, NEW form \in Forms, CreateTradeBegin(r, u, v, form)
        PROVE  InPlace(r)'
    <3>1. req'[r] = [pc |-> "lock", op |-> "propose", user |-> u, with |-> v,
                     receive |-> form.receive, give |-> form.give,
                     todo |-> LockItemsByIDs(form.receive \cup form.give)]
      BY <2>5 DEF CreateTradeBegin, Begin, Inv, TypeOK
    <3>2. userLock'[u] = r /\ userLock'[v] = r
      BY <2>5 DEF CreateTradeBegin, LockUsers
    <3>3. QED  BY <3>1, <3>2 DEF InPlace, Doing, Chosen, LockItemsByIDs
  <2>6. ASSUME NEW u \in Users, DeleteAccountBegin(r, u)
        PROVE  InPlace(r)'
    <3>1. req'[r] = [pc |-> "lock", op |-> "leave", user |-> u, listed |-> ListedBy(u), todo |-> ListedBy(u)]
      BY <2>6 DEF DeleteAccountBegin, Begin, Inv, TypeOK
    <3>2. /\ req'[r].op = "leave" /\ req'[r].user = u
          /\ req'[r].listed = ListedBy(u) /\ req'[r].todo = ListedBy(u)
      BY <3>1
    <3>3. /\ userLock'[u] = r
          /\ \A t \in Trades : Open(t)' => ~(u \in {trades'[t].proposer, trades'[t].receiver})
      BY <1>4, <2>6 DEF DeleteAccountBegin, LockUsers, Open, InTrade
    <3>4. \A i \in ListedBy(u) : items'[i].user = u
      BY <1>4 DEF ListedBy
    <3>5. QED  BY <3>2, <3>3, <3>4 DEF InPlace, Doing, InTrade, Chosen
  <2>7. QED  BY <2>2, <2>3, <2>4, <2>5, <2>6 DEF BeginRequest
<1>7. IsFiniteSet(LockedItems')
  BY <1>1 DEF WaitInv, LockedItems
<1>8. \A t \in Trades : Open(t)' => Open(t)
  BY <1>4 DEF Open
<1>9. QED  BY <1>1, <1>2, <1>3, <1>4, <1>5, <1>6, <1>7, <1>8, StepsKeepWaitInv

\* The next row is above those held, unless it is a deletion's.
LEMMA LockingKeepsWaitInv ==
    ASSUME Inv, WaitInv, NEW r \in Requests, LockInOrder(r) \/ LockAnyNext(r)
    PROVE  WaitInv'
<1>1. req[r].pc = "lock" /\ req[r].op \in {"propose", "complete", "leave"}
  BY DEF LockInOrder, LockAnyNext, Doing
<1>2. PICK i \in req[r].todo : LockItem(r, i) /\ (req[r].op # "leave" => i \in NextInOrder(req[r].todo))
  BY DEF LockInOrder, LockAnyNext, NextInOrder, Doing
<1>3. PICK s : s = req[r]
  OBVIOUS
<1>4. PICK n : n = [s EXCEPT !.todo = s.todo \ {i}]
  OBVIOUS
<1>5. /\ req'[r] = n /\ \A q \in Requests : q # r => req'[q] = req[q]
      /\ UNCHANGED <<database, userLock>>
  BY <1>2, <1>3, <1>4 DEF LockItem, Inv, TypeOK
<1>6. /\ n.pc = s.pc /\ n.op = s.op /\ s.todo \subseteq Items /\ n.todo = s.todo \ {i}
      /\ s.op = "propose" => n.user = s.user /\ n.with = s.with /\ n.receive = s.receive /\ n.give = s.give
      /\ s.op = "complete" => n.trade = s.trade /\ n.amounts = s.amounts
      /\ s.op = "leave" => n.listed = s.listed /\ n.user = s.user
  BY <1>1, <1>3, <1>4, RequestsHaveTheirFields DEF Inv
<1>7. /\ i \in Items /\ itemLock[i] = NoRequest
      /\ \A j \in Items : itemLock'[j] = IF j = i THEN r ELSE itemLock[j]
  BY <1>2, <1>3, <1>6 DEF LockItem, Inv, TypeOK
<1>8. alive' = alive /\ items' = items /\ trades' = trades
  BY <1>5 DEF database
<1>9. InPlace(r)'
  <2>1. InPlace(r)
    BY DEF WaitInv
  <2>2. s.op = "propose" => userLock'[n.user] = r /\ userLock'[n.with] = r
    BY <1>1, <1>3, <1>5, <1>6, <2>1 DEF InPlace, Doing
  <2>3. s.op = "leave" => /\ userLock'[n.user] = r
                          /\ \A t \in Trades : Open(t)' => ~(n.user \in {trades'[t].proposer, trades'[t].receiver})
                          /\ \A j \in n.listed : items'[j].user = n.user
    BY <1>1, <1>3, <1>5, <1>6, <1>8, <2>1 DEF InPlace, Doing, Open, InTrade
  <2>4. \A j \in n.todo : Chosen(n, j)
    BY <1>1, <1>3, <1>6, <2>1 DEF InPlace, Chosen
  <2>5. QED  BY <1>5, <1>6, <2>2, <2>3, <2>4 DEF InPlace, Doing, InTrade, Chosen
<1>10. ASSUME NEW j \in Items, itemLock'[j] = r
       PROVE  Takes(r, j)'
  <2>1. ASSUME j # i PROVE Takes(r, j)
    BY <1>7, <1>10, <2>1 DEF WaitInv
  <2>2. Chosen(n, j)
    <3>1. Chosen(s, i)
      BY <1>1, <1>2, <1>3 DEF WaitInv, InPlace
    <3>2. Chosen(s, j)
      BY <1>3, <2>1, <3>1 DEF Takes
    <3>3. QED  BY <1>6, <3>2 DEF Chosen
  <2>3. j \notin n.todo
    BY <1>3, <1>6, <2>1 DEF Takes
  <2>4. n.op # "leave" => \A l \in n.todo : j < l
    <3>1. CASE j # i
      BY <1>3, <1>6, <2>1, <3>1 DEF Takes
    <3>2. CASE j = i
      <4>1. ASSUME s.op # "leave", NEW l \in s.todo, l # i
            PROVE  i < l
        <5>1. i <= l /\ i \in Nat /\ l \in Nat
          BY <1>2, <1>3, <1>6, <1>7, <4>1, ItemsAreOrdered DEF NextInOrder
        <5>2. QED  BY <4>1, <5>1
      <4>2. QED  BY <1>6, <3>2, <4>1
    <3>3. QED  BY <3>1, <3>2
  <2>5. QED  BY <1>1, <1>3, <1>5, <1>6, <2>2, <2>3, <2>4 DEF Takes, Chosen
<1>11. LockedItems' = LockedItems \cup {i}
  BY <1>7, NoRequestIsNoRequest DEF LockedItems
<1>12. IsFiniteSet(LockedItems')
  BY <1>11, FS_AddElement DEF WaitInv
<1>13. \A t \in Trades : Open(t)' => Open(t)
  BY <1>8 DEF Open
<1>14. \A q \in Requests, j \in Items : q # r /\ itemLock'[j] = q => itemLock[j] = q
  BY <1>7
<1>15. QED  BY <1>5, <1>8, <1>9, <1>10, <1>12, <1>13, <1>14, StepsKeepWaitInv

LEMMA ChecksKeepWaitInv ==
    ASSUME Inv, WaitInv, NEW r \in Requests, ValidateTrade(r)
    PROVE  WaitInv'
<1>1. CASE Refuse(r)
  <2>1. Return(r) /\ items' = items /\ trades' = trades
    BY <1>1 DEF Refuse, database
  <2>2. QED  BY <2>1, ReturnsKeepWaitInv DEF Open
<1>2. CASE req' = [req EXCEPT ![r].pc = "write"] /\ UNCHANGED <<database, locks>>
  <2>1. PICK s : s = req[r]
    OBVIOUS
  <2>2. PICK n : n = [s EXCEPT !.pc = "write"]
    OBVIOUS
  <2>3. /\ req'[r] = n /\ \A q \in Requests : q # r => req'[q] = req[q]
        /\ items' = items /\ trades' = trades /\ userLock' = userLock /\ itemLock' = itemLock
    BY <1>2, <2>1, <2>2 DEF Inv, TypeOK, database, locks
  <2>4. /\ s.pc = "lock" /\ s.op = "propose" /\ s.todo = {}
        /\ n.pc = "write" /\ n.op = "propose" /\ n.todo = {} /\ n.user = s.user /\ n.with = s.with
        /\ n.receive = s.receive /\ n.give = s.give
    BY <2>1, <2>2, RequestsHaveTheirFields DEF ValidateTrade, Doing, Inv
  <2>5. InPlace(r)'
    <3>1. userLock[s.user] = r /\ userLock[s.with] = r
      BY <2>1, <2>4 DEF WaitInv, InPlace, Doing
    <3>2. QED  BY <2>3, <2>4, <3>1 DEF InPlace, Doing
  <2>6. ASSUME NEW i \in Items, itemLock'[i] = r
        PROVE  Takes(r, i)'
    <3>1. Chosen(s, i)
      BY <2>1, <2>3, <2>6 DEF WaitInv, Takes
    <3>2. QED  BY <2>3, <2>4, <3>1 DEF Takes, Chosen
  <2>7. IsFiniteSet(LockedItems')
    BY <2>3 DEF WaitInv, LockedItems
  <2>8. \A t \in Trades : Open(t)' => Open(t)
    BY <2>3 DEF Open
  <2>9. QED  BY <2>3, <2>5, <2>6, <2>7, <2>8, StepsKeepWaitInv
<1>3. QED  BY <1>1, <1>2 DEF ValidateTrade

\* A trade that ends, or nothing at all.
LEMMA EndsKeepWaitInv ==
    ASSUME WaitInv, UNCHANGED <<items, locks, req>>,
           \A t \in Trades : Open(t)' =>
              Open(t) /\ trades'[t].proposer = trades[t].proposer /\ trades'[t].receiver = trades[t].receiver
    PROVE  WaitInv'
<1>1. items' = items /\ userLock' = userLock /\ itemLock' = itemLock /\ req' = req
  BY DEF locks
<1>2. ASSUME NEW q \in Requests PROVE InPlace(q)'
  <2>1. InPlace(q)
    BY DEF WaitInv
  <2>2. QED  BY <1>1, <2>1 DEF InPlace, Doing, InTrade, Chosen
<1>3. ASSUME NEW q \in Requests, NEW i \in Items, itemLock'[i] = q PROVE Takes(q, i)'
  BY <1>1, <1>3 DEF WaitInv, Takes, Chosen
<1>4. IsFiniteSet(LockedItems')
  BY <1>1 DEF WaitInv, LockedItems
<1>5. QED  BY <1>2, <1>3, <1>4 DEF WaitInv

\* The parties of a trade are those who held it open; only a proposal, which
\* holds both of them, opens one.
LEMMA OpenTradesHaveTheirParties ==
    ASSUME Inv, WaitInv, NEW r \in Requests, SendScreen(r) \/ Continue(r) \/ Abort(r), NEW t \in Trades, Open(t)'
    PROVE  \/ Open(t) /\ trades'[t].proposer = trades[t].proposer /\ trades'[t].receiver = trades[t].receiver
           \/ userLock[trades'[t].proposer] = r /\ userLock[trades'[t].receiver] = r
<1>1. CASE trades' = trades
  BY <1>1 DEF Open
<1>2. ASSUME NEW c \in Trades, CreateTradeCommit(r, c)
      PROVE  \/ trades'[t] = trades[t]
             \/ userLock[trades'[t].proposer] = r /\ userLock[trades'[t].receiver] = r
  <2>1. userLock[req[r].user] = r /\ userLock[req[r].with] = r
    BY <1>2 DEF CreateTradeCommit, WaitInv, InPlace
  <2>2. t = c => trades'[t].proposer = req[r].user /\ trades'[t].receiver = req[r].with
    BY <1>2 DEF CreateTradeCommit, Inv, TypeOK
  <2>3. t # c => trades'[t] = trades[t]
    BY <1>2 DEF CreateTradeCommit, Inv, TypeOK
  <2>4. QED  BY <2>1, <2>2, <2>3
<1>3. CASE CompleteTradeCommit(r)
  <2>1. PICK c : c = req[r].trade
    OBVIOUS
  <2>2. c \in Trades /\ Open(c)
    BY <1>3, <2>1, RequestsHaveTheirFields
       DEF CompleteTradeCommit, Doing, Inv, RequestsAreInOrder, InOrder, CompletionInOrder
  <2>3. trades' = [trades EXCEPT ![c] = [trades[c] EXCEPT !.status = "completed"]]
    BY <1>3, <2>1 DEF CompleteTradeCommit
  <2>4. trades[c] \in Trade
    BY <2>2, RowsHaveTheirFields DEF Open, Inv
  <2>5. trades'[c].status = "completed"
    BY <2>2, <2>3, <2>4 DEF Inv, TypeOK, Trade
  <2>6. trades'[t] = trades[t]
    BY <2>2, <2>3, <2>5 DEF Open, Inv, TypeOK
  <2>7. QED  BY <2>6 DEF Open
<1>4. trades' = trades \/ (\E c \in Trades : CreateTradeCommit(r, c)) \/ CompleteTradeCommit(r)
  BY DEF SendScreen, UpdateItem, DeleteItem, ChangeItem, Continue, CreateItemInsert, LockInOrder, LockAnyNext,
         LockItem, ValidateTrade, DeleteAccountCommit, Abort, Refuse, database
<1>5. QED  BY <1>1, <1>2, <1>3, <1>4 DEF Open

\* Every step keeps who holds what, for what.
LEMMA NextKeepsWaitInv ==
    ASSUME Inv, WaitInv, [Next]_vars
    PROVE  WaitInv'
<1>1. \A i \in Items : Added(i) => items'[i].user = items[i].user
  BY StepsAreInOrder, RowsStay
<1>2. ASSUME NEW r \in Requests, BeginRequest(r)
      PROVE  WaitInv'
  BY <1>2, BeginningsKeepWaitInv
<1>3. ASSUME NEW r \in Requests, SendScreen(r) \/ Continue(r) \/ Abort(r)
      PROVE  WaitInv'
  <2>1. Return(r) \/ LockInOrder(r) \/ LockAnyNext(r) \/ ValidateTrade(r)
    BY <1>3 DEF SendScreen, UpdateItem, DeleteItem, ChangeItem, Continue, CreateItemInsert, CreateTradeCommit,
                CompleteTradeCommit, DeleteAccountCommit, Abort, Refuse
  <2>2. CASE Return(r)
    BY <1>1, <1>3, <2>2, OpenTradesHaveTheirParties, ReturnsKeepWaitInv
  <2>3. QED  BY <2>1, <2>2, LockingKeepsWaitInv, ChecksKeepWaitInv
<1>4. ASSUME NEW t \in Trades, EndTrade(t)
      PROVE  WaitInv'
  <2>1. trades' = [trades EXCEPT ![t] = [trades[t] EXCEPT !.status = "over"]]
    BY <1>4 DEF EndTrade
  <2>2. trades[t] \in Trade
    BY <1>4, RowsHaveTheirFields DEF EndTrade, Open, Inv
  <2>3. trades'[t].status = "over" /\ \A c \in Trades : c # t => trades'[c] = trades[c]
    BY <2>1, <2>2 DEF Inv, TypeOK, Trade
  <2>4. \A c \in Trades : Open(c)' => trades'[c] = trades[c] /\ Open(c)
    BY <2>3 DEF Open
  <2>5. UNCHANGED <<items, locks, req>>
    BY <1>4 DEF EndTrade
  <2>6. QED  BY <2>4, <2>5, EndsKeepWaitInv
<1>5. CASE UNCHANGED vars
  BY <1>5, EndsKeepWaitInv DEF vars, database, locks, Open
<1>6. QED  BY <1>2, <1>3, <1>4, <1>5 DEF Next

\* Requests that lock the same items wait for each other in no circle but the
\* one of a deletion and a proposal of others that names items of its user
\* (CirclesNeedForeignItems, of ORDER BY id in LockItemsByIDs and
\* DecrementTradedItems, and of the users' rows that a proposal and a deletion
\* lock first).
THEOREM WaitsEnd == Spec => []CirclesNeedForeignItems
<1>1. Init => WaitInv
  <2> SUFFICES ASSUME Init PROVE WaitInv
    OBVIOUS
  <2>1. LockedItems = {}
    BY DEF Init, LockedItems
  <2>2. \A r \in Requests : req[r].pc = "idle"
    BY RestIsInOrder DEF Init
  <2>3. \A r \in Requests : InPlace(r)
    BY <2>2 DEF InPlace, Doing
  <2>4. \A r \in Requests, i \in Items : itemLock[i] # r
    BY NoRequestIsNoRequest DEF Init
  <2>5. QED  BY <2>1, <2>3, <2>4, FS_EmptySet DEF WaitInv
<1>2. Inv /\ WaitInv /\ [Next]_vars => WaitInv'
  BY NextKeepsWaitInv
<1>3. Inv /\ WaitInv => CirclesNeedForeignItems
  BY CirclesAreOfTheOneKind
<1>4. QED  BY <1>1, <1>2, <1>3, InvHolds, PTL DEF Spec

=============================================================================
