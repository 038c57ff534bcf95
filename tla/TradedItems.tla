----------------------------- MODULE TradedItems -----------------------------
(***************************************************************************)
(* The items of the users' lists and everything that changes them: adding, *)
(* the editing screen with its version, removing, proposing a trade of     *)
(* them, completing it, and the deletion of an account.                    *)
(*                                                                         *)
(* A screen shows an item and is sent some time later.  A proposal, a      *)
(* completion and a deletion lock the rows of items one after the other;   *)
(* what they do to the rows they hold is seen when they commit, so the     *)
(* writes are one step with the commit.  UPDATE and SELECT ... FOR UPDATE  *)
(* act on the newest version of a row after the wait for its lock; WHICH   *)
(* rows a statement touches is decided by its snapshot, at its start.      *)
(*                                                                         *)
(* Of a trade only "open" (pending or matched), "completed" and "over" (it *)
(* ended another way) are told apart; its stages, the presses and the      *)
(* order of the users' locks are the subject of module TradeLifecycle.     *)
(***************************************************************************)
EXTENDS Naturals, FiniteSets

CONSTANTS
    Users,
    Goods,
    Items,          \* ids of the items that may be added, in the order of uuidv7
    Trades,
    Requests,       \* requests in flight and screens that are open
    NoRow,          \* "no such row"
    NoRequest,      \* "nobody holds the lock"
    MaxQuantity,    \* itemQuantityMax
    MaxVersion,     \* bound: no screen is opened on a row of this version
    Forms           \* bound: the ids on the two sides of the proposals that are sent

ASSUME ItemsAreOrdered == Items \subseteq Nat
ASSUME FormsHoldIds == Forms \subseteq [receive: SUBSET Items, give: SUBSET Items]
ASSUME QuantitiesAreNumbers == MaxQuantity \in Nat
ASSUME NoRowIsNoUser == NoRow \notin Users
ASSUME NoRequestIsNoRequest == NoRequest \notin Requests

VARIABLES
    alive,      \* users: deleted_at IS NULL
    items,      \* items
    trades,     \* trades with their trade_items
    userLock,   \* the request that holds the row of users
    itemLock,   \* the request that holds the row of items
    req         \* where each request stands

database == <<alive, items, trades>>
locks == <<userLock, itemLock>>
vars == <<database, locks, req>>

Kinds == {"give", "want"}

\* What a form may ask for.
Quantities == 1..MaxQuantity

ItemRows == [user: Users, goods: Goods, kind: Kinds, status: {"listed", "removed"},
             quantity: 0..MaxQuantity, version: Nat]
Trade == [proposer: Users, receiver: Users, items: SUBSET Items,
          status: {"open", "completed", "over"}]

ASSUME NoRowIsNoRow == NoRow \notin ItemRows \cup Trade

\* "todo": the rows of items still to be locked; "shown": the quantity on the
\* screen; "amounts": what the statement's snapshot takes from each item.
Idle == [pc |-> "idle"]
RequestStates ==
    {Idle}
    \cup [pc: {"insert"}, op: {"add"}, user: Users]
    \cup [pc: {"screen"}, op: {"edit"}, user: Users, item: Items, version: Nat, shown: 0..MaxQuantity]
    \cup [pc: {"lock", "write"}, op: {"propose"}, user: Users, with: Users,
          receive: SUBSET Items, give: SUBSET Items, todo: SUBSET Items]
    \cup [pc: {"lock"}, op: {"complete"}, trade: Trades, amounts: [Items -> Nat], todo: SUBSET Items]
    \cup [pc: {"lock"}, op: {"leave"}, user: Users, listed: SUBSET Items, todo: SUBSET Items]

TypeOK ==
    /\ alive \in [Users -> BOOLEAN]
    /\ items \in [Items -> ItemRows \cup {NoRow}]
    /\ trades \in [Trades -> Trade \cup {NoRow}]
    /\ userLock \in [Users -> Requests \cup {NoRequest}]
    /\ itemLock \in [Items -> Requests \cup {NoRequest}]
    /\ req \in [Requests -> RequestStates]

Init ==
    /\ alive = [u \in Users |-> TRUE]
    /\ items = [i \in Items |-> NoRow]
    /\ trades = [t \in Trades |-> NoRow]
    /\ userLock = [u \in Users |-> NoRequest]
    /\ itemLock = [i \in Items |-> NoRequest]
    /\ req = [r \in Requests |-> Idle]

-----------------------------------------------------------------------------
(* What the statements read. *)

Added(i) == items[i] # NoRow
Listed(i) == Added(i) /\ items[i].status = "listed"
ListedBy(u) == {i \in Items : Listed(i) /\ items[i].user = u}

Open(t) == trades[t] # NoRow /\ trades[t].status = "open"
InTrade(u, t) == u \in {trades[t].proposer, trades[t].receiver}
Recipient(t, i) ==
    IF items[i].user = trades[t].proposer THEN trades[t].receiver ELSE trades[t].proposer

\* The unique index on the listed rows of a user, goods and kind.
AlreadyListed(u, g, k) ==
    \E i \in ListedBy(u) : items[i].goods = g /\ items[i].kind = k

-----------------------------------------------------------------------------
(* The statements, as operators on the row they find.  The operators marked
   wrong on purpose are variants with a bug; they stand in for the right one
   when a property is tested. *)

UpdateListedItem(row, u, version, quantity) ==
    IF row.user = u /\ row.status = "listed" /\ row.version = version
    THEN [row EXCEPT !.quantity = quantity, !.version = @ + 1]
    ELSE row

RemoveListedItem(row, u, version) ==
    IF row.user = u /\ row.status = "listed" /\ row.version = version
    THEN [row EXCEPT !.status = "removed", !.version = @ + 1]
    ELSE row

\* One row of RemoveListedItemsByUserID.
RemoveListed(row) ==
    IF row.status = "listed"
    THEN [row EXCEPT !.status = "removed", !.version = @ + 1]
    ELSE row

\* Wrong on purpose: the last point leaves an empty item in the list.
DecrementKeepingEmpty(row, amount) ==
    IF row.status = "listed"
    THEN [row EXCEPT !.quantity = IF @ > amount THEN @ - amount ELSE 0,
                     !.status = IF row.quantity < amount THEN "removed" ELSE @,
                     !.version = @ + 1]
    ELSE row

\* Wrong on purpose: an open screen does not notice the change.
DecrementSameVersion(row, amount) ==
    IF row.status = "listed"
    THEN [row EXCEPT !.quantity = IF @ > amount THEN @ - amount ELSE 0,
                     !.status = IF row.quantity <= amount THEN "removed" ELSE @]
    ELSE row

\* Wrong on purpose: the state of the row is not looked at again.
DecrementRemoved(row, amount) ==
    [row EXCEPT !.quantity = IF @ > amount THEN @ - amount ELSE 0,
                !.status = IF row.quantity <= amount THEN "removed" ELSE @,
                !.version = @ + 1]

\* One row of DecrementTradedItems.
Decrement(row, amount) ==
    IF row.status = "listed"
    THEN [row EXCEPT !.quantity = IF @ > amount THEN @ - amount ELSE 0,
                     !.status = IF row.quantity <= amount THEN "removed" ELSE @,
                     !.version = @ + 1]
    ELSE row

\* Wrong on purpose: what the recipient gives is taken for a wish.
AmountsOfAnyKind(t) ==
    [i \in Items |->
        Cardinality({j \in trades[t].items :
            \/ j = i
            \/ /\ Listed(i)
               /\ items[i].user = Recipient(t, j)
               /\ items[i].goods = items[j].goods})]

\* The decrements of a trade: a point of each item given, and one of the
\* recipient's wish for the same goods if it is listed now.
Amounts(t) ==
    [i \in Items |->
        Cardinality({j \in trades[t].items :
            \/ j = i
            \/ /\ Listed(i) /\ items[i].kind = "want"
               /\ items[i].user = Recipient(t, j)
               /\ items[i].goods = items[j].goods})]

-----------------------------------------------------------------------------
(* How a request moves. *)

Begin(r, state) ==
    /\ req' = [req EXCEPT ![r] = state]
    /\ UNCHANGED database

\* The transaction, if there is one, is over and its locks are free.
Return(r) ==
    /\ req' = [req EXCEPT ![r] = Idle]
    /\ userLock' = [u \in Users |-> IF userLock[u] = r THEN NoRequest ELSE userLock[u]]
    /\ itemLock' = [i \in Items |-> IF itemLock[i] = r THEN NoRequest ELSE itemLock[i]]

Refuse(r) == Return(r) /\ UNCHANGED database

\* A failed statement, a lost client, the end of the process, a screen that is
\* never sent, or a transaction that PostgreSQL ends because of a deadlock.
Abort(r) == req[r] # Idle /\ Refuse(r)

Doing(r, op, pc) == req[r].pc = pc /\ req[r].op = op

\* Bound: a request that makes a row is begun only while an id is left for it.
RoomFor(free, op) ==
    Cardinality({r \in Requests : req[r].pc # "idle" /\ req[r].op = op}) < Cardinality(free)

-----------------------------------------------------------------------------
(* One's own list. *)

CreateItemBegin(r, u) ==
    /\ RoomFor({i \in Items : ~Added(i)}, "add")
    /\ alive[u]
    /\ Begin(r, [pc |-> "insert", op |-> "add", user |-> u])
    /\ UNCHANGED locks

NewItem(u, g, k, quantity) ==
    [user |-> u, goods |-> g, kind |-> k, status |-> "listed", quantity |-> quantity, version |-> 0]

\* Wrong on purpose: without the unique index.
CreateItemTwice(r, i, g, k, quantity) ==
    /\ Doing(r, "add", "insert")
    /\ ~Added(i)
    /\ items' = [items EXCEPT ![i] = NewItem(req[r].user, g, k, quantity)]
    /\ Return(r)
    /\ UNCHANGED <<alive, trades>>

\* WithdrawUser changes unique columns, so until it commits the insert's
\* foreign key waits for the row of the user.
BeingWithdrawn(u) == \E r \in Requests : Doing(r, "leave", "lock") /\ req[r].user = u

\* The user is not read again: the row that stays of one who has left
\* satisfies the foreign key.  The masters, which are locked and read again,
\* are not told apart here.  An id is newer than all before it.
CreateItemInsert(r, i, g, k, quantity) ==
    /\ Doing(r, "add", "insert")
    /\ ~BeingWithdrawn(req[r].user)
    /\ ~Added(i) /\ \A j \in Items : j < i => Added(j)
    /\ IF AlreadyListed(req[r].user, g, k)
       THEN Refuse(r)
       ELSE /\ items' = [items EXCEPT ![i] = NewItem(req[r].user, g, k, quantity)]
            /\ Return(r)
            /\ UNCHANGED <<alive, trades>>

\* The editing screen of an item of one's own, with the version it read.
OpenItemScreen(r, u, i) ==
    /\ alive[u]
    /\ i \in ListedBy(u)
    /\ items[i].version < MaxVersion
    /\ Begin(r, [pc |-> "screen", op |-> "edit", user |-> u, item |-> i,
                 version |-> items[i].version, shown |-> items[i].quantity])
    /\ UNCHANGED locks

\* The statement waits for the row; no row updated is a conflict.
ChangeItem(r, updated) ==
    /\ itemLock[req[r].item] = NoRequest
    /\ items' = [items EXCEPT ![req[r].item] = updated]
    /\ Return(r)
    /\ UNCHANGED <<alive, trades>>

UpdateItem(r, quantity) ==
    /\ Doing(r, "edit", "screen")
    /\ ChangeItem(r, UpdateListedItem(items[req[r].item], req[r].user, req[r].version, quantity))

DeleteItem(r) ==
    /\ Doing(r, "edit", "screen")
    /\ ChangeItem(r, RemoveListedItem(items[req[r].item], req[r].user, req[r].version))

-----------------------------------------------------------------------------
(* Locks on items, one row at a time. *)

\* Wrong on purpose: whichever row comes first.
NextInAnyOrder(todo) == todo

\* ORDER BY id
NextInOrder(todo) == {i \in todo : \A j \in todo : i <= j}

LockItem(r, i) ==
    /\ itemLock[i] = NoRequest
    /\ itemLock' = [itemLock EXCEPT ![i] = r]
    /\ req' = [req EXCEPT ![r].todo = @ \ {i}]
    /\ UNCHANGED <<database, userLock>>

\* LockItemsByIDs, and the CTE "locked" of DecrementTradedItems.
LockInOrder(r) ==
    /\ Doing(r, "propose", "lock") \/ Doing(r, "complete", "lock")
    /\ \E i \in NextInOrder(req[r].todo) : LockItem(r, i)

\* An UPDATE of several rows takes them as its scan finds them.
LockAnyNext(r) ==
    /\ Doing(r, "leave", "lock")
    /\ \E i \in req[r].todo : LockItem(r, i)

-----------------------------------------------------------------------------
(* Proposing. *)

LockUsers(r, us) ==
    /\ \A u \in us : alive[u] /\ userLock[u] = NoRequest
    /\ userLock' = [u \in Users |-> IF u \in us THEN r ELSE userLock[u]]
    /\ UNCHANGED itemLock

\* Wrong on purpose: reads the items without locking them.
LockNoItems(ids) == {}

LockItemsByIDs(ids) == ids

\* Wrong on purpose: the receiver is read without a lock.
CreateTradeBeginLockingOne(r, u, v, form) ==
    /\ RoomFor({t \in Trades : trades[t] = NoRow}, "propose")
    /\ u # v /\ alive[v]
    /\ form.receive # {} /\ form.give # {} /\ \A i \in form.receive \cup form.give : Added(i)
    /\ LockUsers(r, {u})
    /\ Begin(r, [pc |-> "lock", op |-> "propose", user |-> u, with |-> v,
                 receive |-> form.receive, give |-> form.give,
                 todo |-> LockItemsByIDs(form.receive \cup form.give)])

\* Both users are locked.  The ids are those of the form, whoever owns the
\* items, whichever list they are in, and even if one is on both sides; their
\* rows are locked before anything of this is looked at.  Forms with an id of
\* no row at all, which are refused in the end, are left out.
CreateTradeBegin(r, u, v, form) ==
    /\ RoomFor({t \in Trades : trades[t] = NoRow}, "propose")
    /\ u # v
    /\ form.receive # {} /\ form.give # {} /\ \A i \in form.receive \cup form.give : Added(i)
    /\ LockUsers(r, {u, v})
    /\ Begin(r, [pc |-> "lock", op |-> "propose", user |-> u, with |-> v,
                 receive |-> form.receive, give |-> form.give,
                 todo |-> LockItemsByIDs(form.receive \cup form.give)])

ListedGiveOf(i, u) == Listed(i) /\ items[i].kind = "give" /\ items[i].user = u

ValidateTrade(r) ==
    /\ Doing(r, "propose", "lock") /\ req[r].todo = {}
    /\ IF /\ \A i \in req[r].receive : ListedGiveOf(i, req[r].with)
          /\ \A i \in req[r].give : ListedGiveOf(i, req[r].user)
       THEN req' = [req EXCEPT ![r].pc = "write"] /\ UNCHANGED <<database, locks>>
       ELSE Refuse(r)

CreateTradeCommit(r, t) ==
    /\ Doing(r, "propose", "write")
    /\ trades[t] = NoRow
    /\ trades' = [trades EXCEPT ![t] =
                    [proposer |-> req[r].user, receiver |-> req[r].with,
                     items |-> req[r].receive \cup req[r].give, status |-> "open"]]
    /\ Return(r)
    /\ UNCHANGED <<alive, items>>

-----------------------------------------------------------------------------
(* The end of a trade. *)

\* The row of a trade whose last press is under way is locked.
BeingCompleted(t) == \E r \in Requests : req[r].pc = "lock" /\ req[r].op = "complete" /\ req[r].trade = t

\* Withdrawn, declined, cancelled or failed: nothing happens to the items.
EndTrade(t) ==
    /\ Open(t) /\ ~BeingCompleted(t)
    /\ trades' = [trades EXCEPT ![t].status = "over"]
    /\ UNCHANGED <<alive, items, locks, req>>

\* The second press has updated the trade; DecrementTradedItems takes its
\* snapshot, which tells the wishes that are listed.
CompleteTradeBegin(r, t) ==
    /\ Open(t) /\ ~BeingCompleted(t)
    /\ LET amounts == Amounts(t)
       IN  Begin(r, [pc |-> "lock", op |-> "complete", trade |-> t, amounts |-> amounts,
                     todo |-> {i \in Items : amounts[i] > 0}])
    /\ UNCHANGED locks

CompleteTradeCommit(r) ==
    /\ Doing(r, "complete", "lock") /\ req[r].todo = {}
    /\ trades' = [trades EXCEPT ![req[r].trade].status = "completed"]
    /\ items' = [i \in Items |-> IF req[r].amounts[i] > 0
                                 THEN Decrement(items[i], req[r].amounts[i])
                                 ELSE items[i]]
    /\ Return(r)
    /\ UNCHANGED alive

-----------------------------------------------------------------------------
(* The deletion of an account. *)

\* The user is locked, no trade is in progress, WithdrawUser has changed the
\* row and RemoveListedItemsByUserID has taken its snapshot: nobody else can
\* tell these apart, since what they look at waits for the row of the user.
DeleteAccountBegin(r, u) ==
    /\ ~\E t \in Trades : Open(t) /\ InTrade(u, t)
    /\ LockUsers(r, {u})
    /\ Begin(r, [pc |-> "lock", op |-> "leave", user |-> u, listed |-> ListedBy(u), todo |-> ListedBy(u)])

DeleteAccountCommit(r) ==
    /\ Doing(r, "leave", "lock") /\ req[r].todo = {}
    /\ alive' = [alive EXCEPT ![req[r].user] = FALSE]
    /\ items' = [i \in Items |-> IF i \in req[r].listed THEN RemoveListed(items[i]) ELSE items[i]]
    /\ Return(r)
    /\ UNCHANGED trades

-----------------------------------------------------------------------------
BeginRequest(r) ==
    /\ req[r] = Idle
    /\ \/ \E u \in Users : CreateItemBegin(r, u)
       \/ \E u \in Users, i \in Items : OpenItemScreen(r, u, i)
       \/ \E u, v \in Users, form \in Forms : CreateTradeBegin(r, u, v, form)
       \/ \E t \in Trades : CompleteTradeBegin(r, t)
       \/ \E u \in Users : DeleteAccountBegin(r, u)

SendScreen(r) ==
    \/ \E quantity \in Quantities : UpdateItem(r, quantity)
    \/ DeleteItem(r)

\* The step the server owes a request it has begun.
Continue(r) ==
    \/ \E i \in Items, g \in Goods, k \in Kinds, quantity \in Quantities :
          CreateItemInsert(r, i, g, k, quantity)
    \/ LockInOrder(r)
    \/ LockAnyNext(r)
    \/ ValidateTrade(r)
    \/ \E t \in Trades : CreateTradeCommit(r, t)
    \/ CompleteTradeCommit(r)
    \/ DeleteAccountCommit(r)

Next ==
    \/ \E r \in Requests :
          \/ BeginRequest(r)
          \/ SendScreen(r)
          \/ Continue(r)
          \/ Abort(r)
    \/ \E t \in Trades : EndTrade(t)

Spec == Init /\ [][Next]_vars

-----------------------------------------------------------------------------
(* Who waits for whom. *)

\* The rows of items a request has to lock, or to change, next.
Needs(r) ==
    {i \in Items :
        \/ (Doing(r, "propose", "lock") \/ Doing(r, "complete", "lock")) /\ i \in NextInOrder(req[r].todo)
        \/ Doing(r, "leave", "lock") /\ i \in req[r].todo
        \/ Doing(r, "edit", "screen") /\ i = req[r].item}

\* Whom it may have to wait for: the holders of those rows and, for an
\* addition, the deletion of its user.
Blockers(r) ==
    {q \in Requests :
        \/ \E i \in Needs(r) : itemLock[i] = q
        \/ Doing(r, "add", "insert") /\ Doing(q, "leave", "lock") /\ req[q].user = req[r].user}

IsCircle(circle) == circle # {} /\ \A r \in circle : Blockers(r) \cap circle # {}

\* A proposal whose form names items of a user who is neither the proposer nor
\* the receiver, of whom it therefore has no lock.
NamesItemsOf(q, u) ==
    /\ Doing(q, "propose", "lock") \/ Doing(q, "propose", "write")
    /\ u \notin {req[q].user, req[q].with}
    /\ \E i \in req[q].receive \cup req[q].give : items[i].user = u

\* A deletion in a circle with such a proposal: PostgreSQL ends one of the
\* circle.
InDeadlock(r) ==
    /\ Doing(r, "leave", "lock")
    /\ \E circle \in SUBSET Requests :
          /\ IsCircle(circle) /\ r \in circle
          /\ \E q \in Blockers(r) \cap circle : NamesItemsOf(q, req[r].user)

EndDeadlock(r) == InDeadlock(r) /\ Abort(r)

\* A begun request goes on; PostgreSQL serves a row's waiters in turn, so a
\* lock that keeps becoming free is granted in the end; a deadlock is found.
FairSpec ==
    Spec /\ \A r \in Requests : SF_vars(Continue(r)) /\ WF_vars(EndDeadlock(r))

-----------------------------------------------------------------------------
(* What must hold. *)

\* Whatever is in a list has at least one point: the completion that takes
\* the last one takes the item out too, whatever happened to the quantity
\* since the proposal.
ListedHaveStock == \A i \in Items : Listed(i) => items[i].quantity > 0

\* A screen whose version still fits shows what the row holds, so saving it
\* never undoes a decrement or another tab's edit that its user did not see.
ScreensAreCurrent ==
    \A r \in Requests :
        req[r].pc = "screen" /\ items[req[r].item].version = req[r].version
            => Listed(req[r].item) /\ items[req[r].item].quantity = req[r].shown

\* A trade holds each user's goods at most once.  DecrementTradedItems relies
\* on it: UPDATE ... FROM takes one of several matching decrements of a row.
OnePointOfEachGoods ==
    \A t \in Trades : trades[t] # NoRow =>
        \A i, j \in trades[t].items :
            items[i].user = items[j].user /\ items[i].goods = items[j].goods => i = j

\* At the instant a proposal appears, everything in it is in its owner's list
\* of gives, although the list was read before the trade was written.
ProposedItemsAreListed ==
    [][\A t \in Trades :
          trades[t] = NoRow /\ trades'[t] # NoRow =>
              LET row == trades'[t]
              IN  /\ \A i \in row.items :
                        \E u \in {row.proposer, row.receiver} : ListedGiveOf(i, u)
                  /\ \A u \in {row.proposer, row.receiver} :
                        \E i \in row.items : items[i].user = u]_vars

\* What has left a list stays as it is, for the record of the trades that
\* point to it: neither an old screen nor a completion nor a deletion that
\* had chosen the row before changes it.
RemovedItemsRest ==
    [][\A i \in Items : Added(i) /\ ~Listed(i) => items'[i] = items[i]]_vars

Loses(i, amount) ==
    items'[i].quantity = items[i].quantity - amount
        /\ (items'[i].status = "removed" <=> items[i].quantity = amount)

\* A completion takes one point of each listed give of the trade, at most one
\* of a recipient's wish for the same goods, and touches no other item, however
\* long it waited for the rows.
CompletionTakesOnePoint ==
    [][\A t \in Trades :
          Open(t) /\ trades'[t] # trades[t] /\ trades'[t].status = "completed" =>
              \A i \in Items :
                  IF Listed(i) /\ i \in trades[t].items
                  THEN Loses(i, 1)
                  ELSE \/ items'[i] = items[i]
                       \/ /\ items[i].kind = "want" /\ Loses(i, 1)
                          /\ \E j \in trades[t].items :
                                /\ items[j].goods = items[i].goods
                                /\ items[i].user = Recipient(t, j)]_vars

\* No requests wait for each other in a circle, except a deletion of an account
\* and a proposal of others that names items of this account.
CirclesNeedForeignItems ==
    \A circle \in SUBSET Requests : IsCircle(circle) =>
        \E r, q \in circle : Doing(r, "leave", "lock") /\ q \in Blockers(r) /\ NamesItemsOf(q, req[r].user)

\* Proposals, completions and deletions that lock the same items all return,
\* although nothing but that one kind of circle is ever broken.
RequestsReturn ==
    \A r \in Requests :
        req[r].pc \notin {"idle", "screen"} ~> req[r].pc \in {"idle", "screen"}

=============================================================================
