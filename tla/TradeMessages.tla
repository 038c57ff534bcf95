---------------------------- MODULE TradeMessages ----------------------------
(***************************************************************************)
(* The messages of one matched trade, their order on the page, and how far *)
(* its users have read them.                                               *)
(*                                                                         *)
(* Every row is stamped with NOW(), the time its transaction BEGAN.  Its   *)
(* id, a uuidv7, is drawn when the row is inserted, after the wait for the *)
(* row of the trade; others see the row when the transaction commits.  So  *)
(* the stamps, the ids and the commits may each come in an order of their  *)
(* own.                                                                    *)
(*                                                                         *)
(* The only steps of the trade in this module are the presses of           *)
(* "completed", the ones that two users may take together; both presses    *)
(* end it.  Consent and the other stages are the subject of TradeLifecycle.*)
(***************************************************************************)
EXTENDS Naturals, FiniteSets

CONSTANTS
    Users,          \* the two users of the trade
    Messages,       \* bound: ids of the messages that may be sent
    Requests,       \* requests in flight
    NoRow,          \* "no such row"
    Never,          \* NULL for a time
    MaxTime         \* bound: the last instant of the clock

ASSUME TwoUsers == Cardinality(Users) = 2
ASSUME MessagesAreNumbered == IsFiniteSet(Messages) /\ Messages = 1..Cardinality(Messages)
ASSUME NeverIsNoTime == Never \notin Nat
ASSUME MaxTimeIsATime == MaxTime \in Nat

VARIABLES
    clock,
    messages,   \* trade_messages
    sentAfter,  \* history: the messages there when the sending of each began
    presses,    \* whose press of "completed" is recorded in trade_events
    reads,      \* trade_message_reads: the last position of each user
    seen,       \* history: what each user was shown by pages that were recorded
    req         \* where each request stands

vars == <<clock, messages, sentAfter, presses, reads, seen, req>>

Times == 0..MaxTime
MessageRows == [sender: Users, at: Times, retractedAt: Times \cup {Never}]
Positions == [at: Times, id: Messages]
ASSUME NoRowIsNoRow == NoRow \notin MessageRows \cup Positions
Idle == [pc |-> "idle"]
RequestStates ==
    {Idle}
    \cup [pc: {"send", "press", "pressAndSend"}, user: Users, at: Times, after: SUBSET Messages]
    \cup [pc: {"insert"}, user: Users, at: Times, after: SUBSET Messages, id: Messages]
    \cup [pc: {"page"}, user: Users, page: SUBSET Messages, last: Positions]
    \cup [pc: {"retract"}, user: Users, message: Messages, at: Times]

TypeOK ==
    /\ clock \in Times
    /\ messages \in [Messages -> MessageRows \cup {NoRow}]
    /\ sentAfter \in [Messages -> SUBSET Messages]
    /\ presses \subseteq Users
    /\ reads \in [Users -> Positions \cup {NoRow}]
    /\ seen \in [Users -> SUBSET Messages]
    /\ req \in [Requests -> RequestStates]

Init ==
    /\ clock = 0
    /\ messages = [m \in Messages |-> NoRow]
    /\ sentAfter = [m \in Messages |-> {}]
    /\ presses = {}
    /\ reads = [u \in Users |-> NoRow]
    /\ seen = [u \in Users |-> {}]
    /\ req = [r \in Requests |-> Idle]

-----------------------------------------------------------------------------
Sent == {m \in Messages : messages[m] # NoRow}
Retracted(m) == messages[m].retractedAt # Never

InProgress == presses # Users

\* (created_at, id) < (created_at, id)
Before(p, q) == p.at < q.at \/ (p.at = q.at /\ p.id < q.id)

PositionOf(m) == [at |-> messages[m].at, id |-> m]

\* Wrong on purpose: the newest id instead of the last line of the page.
HasLatestId(m, page) == \A n \in page : n <= m

\* m is the last line of the page: ORDER BY created_at, id.
IsLatest(m, page) == \A n \in page : n = m \/ Before(PositionOf(n), PositionOf(m))

\* Wrong on purpose: read up to now.
ReadUpToNow(latest) == [at |-> clock, id |-> latest]

\* What a page that is shown leaves behind: the position of its last line.
LastReadPosition(latest) == PositionOf(latest)

\* Inserted by a transaction that holds the row of the trade FOR SHARE.
Drawn == {req[r].id : r \in {q \in Requests : req[q].pc = "insert"}}

\* A uuidv7 is later than those drawn before it.
IsNextId(n) ==
    /\ \A m \in Sent \cup Drawn : m < n
    /\ n = 1 \/ n - 1 \in Sent \cup Drawn

\* What the badges count and what the page marks as unread.
IsUnread(m, u) ==
    /\ messages[m].sender # u
    /\ ~Retracted(m)
    /\ reads[u] = NoRow \/ Before(reads[u], PositionOf(m))

-----------------------------------------------------------------------------
Tick ==
    /\ clock < MaxTime
    /\ clock' = clock + 1
    /\ UNCHANGED <<messages, sentAfter, presses, reads, seen, req>>

Begin(r, state) ==
    /\ req[r] = Idle
    /\ req' = [req EXCEPT ![r] = state]
    /\ UNCHANGED <<clock, messages, sentAfter, presses, reads, seen>>

Return(r) == req' = [req EXCEPT ![r] = Idle] /\ UNCHANGED clock

\* A statement fails, the client leaves, the process ends; or a page that is
\* prefetched, or whose mark fails.
Abort(r) ==
    /\ req[r] # Idle
    /\ Return(r)
    /\ UNCHANGED <<messages, sentAfter, presses, reads, seen>>

NewMessage(u, at) == [sender |-> u, at |-> at, retractedAt |-> Never]

Insert(m, row, after) ==
    /\ messages' = [messages EXCEPT ![m] = row]
    /\ sentAfter' = [sentAfter EXCEPT ![m] = after]

CreateTradeMessageBegin(r, u) ==
    /\ InProgress
    /\ Begin(r, [pc |-> "send", user |-> u, at |-> clock, after |-> Sent])

\* The statement holds the trade and has drawn the id; a trade that has ended
\* in the meantime yields no row.
CreateTradeMessageInsert(r) ==
    /\ req[r].pc = "send"
    /\ IF InProgress
       THEN /\ \E n \in Messages :
                  /\ IsNextId(n)
                  /\ req' = [req EXCEPT ![r] = [pc |-> "insert", user |-> @.user, at |-> @.at,
                                                after |-> @.after, id |-> n]]
            /\ UNCHANGED clock
       ELSE Return(r)
    /\ UNCHANGED <<messages, sentAfter, presses, reads, seen>>

CreateTradeMessageCommit(r) ==
    /\ req[r].pc = "insert"
    /\ Insert(req[r].id, NewMessage(req[r].user, req[r].at), req[r].after)
    /\ Return(r)
    /\ UNCHANGED <<presses, reads, seen>>

CompleteTradeBegin(r, u, pc) ==
    /\ InProgress /\ u \notin presses
    /\ Begin(r, [pc |-> pc, user |-> u, at |-> clock, after |-> IF pc = "press" THEN {} ELSE Sent])

\* The update of the trade waits for the messages that hold it FOR SHARE.
CompleteTradeCommit(r) ==
    /\ req[r].pc \in {"press", "pressAndSend"}
    /\ Drawn = {}
    /\ LET u == req[r].user
       IN  IF InProgress /\ u \notin presses
           THEN /\ presses' = presses \cup {u}
                /\ IF req[r].pc = "pressAndSend"
                   THEN \E n \in Messages :
                           IsNextId(n) /\ Insert(n, NewMessage(u, req[r].at), req[r].after)
                   ELSE UNCHANGED <<messages, sentAfter>>
           ELSE UNCHANGED <<messages, sentAfter, presses>>
    /\ Return(r)
    /\ UNCHANGED <<reads, seen>>

-----------------------------------------------------------------------------
(* Reading and taking back. *)

\* The page reads the messages, whatever has become of the trade.
GetTradeMessages(r, u) ==
    /\ \E latest \in Sent :
          /\ IsLatest(latest, Sent)
          /\ Begin(r, [pc |-> "page", user |-> u, page |-> Sent, last |-> LastReadPosition(latest)])

UpsertTradeMessageRead(old, new) ==
    IF old = NoRow \/ Before(old, new) THEN new ELSE old

\* When it has been rendered, the last message of the page is recorded.
MarkTradeMessagesRead(r) ==
    /\ req[r].pc = "page"
    /\ LET u == req[r].user
       IN  /\ reads' = [reads EXCEPT ![u] = UpsertTradeMessageRead(@, req[r].last)]
           /\ seen' = [seen EXCEPT ![u] = @ \cup req[r].page]
    /\ Return(r)
    /\ UNCHANGED <<messages, sentAfter, presses>>

\* The handler has read the message; one that is retracted passes as well.
RetractTradeMessageBegin(r, u, m) ==
    /\ m \in Sent
    /\ messages[m].sender = u
    /\ Begin(r, [pc |-> "retract", user |-> u, message |-> m, at |-> clock])

RetractTradeMessage(row, u, at) ==
    IF row.sender = u /\ row.retractedAt = Never THEN [row EXCEPT !.retractedAt = at] ELSE row

RetractTradeMessageCommit(r) ==
    /\ req[r].pc = "retract"
    /\ messages' = [messages EXCEPT ![req[r].message] = RetractTradeMessage(@, req[r].user, req[r].at)]
    /\ Return(r)
    /\ UNCHANGED <<sentAfter, presses, reads, seen>>

-----------------------------------------------------------------------------
Next ==
    \/ Tick
    \/ \E r \in Requests :
          \/ \E u \in Users :
                \/ CreateTradeMessageBegin(r, u)
                \/ \E pc \in {"press", "pressAndSend"} : CompleteTradeBegin(r, u, pc)
                \/ GetTradeMessages(r, u)
                \/ \E m \in Messages : RetractTradeMessageBegin(r, u, m)
          \/ CreateTradeMessageInsert(r)
          \/ CreateTradeMessageCommit(r)
          \/ CompleteTradeCommit(r)
          \/ MarkTradeMessagesRead(r)
          \/ RetractTradeMessageCommit(r)
          \/ Abort(r)

Spec == Init /\ [][Next]_vars

-----------------------------------------------------------------------------
(* What must hold. *)

\* What a user has been shown, and the page could record, does not come back
\* as unread, even when it shares its instant with other messages or when an
\* older page is recorded later.
SeenStaysRead == \A u \in Users : \A m \in seen[u] : ~IsUnread(m, u)

\* A message whose sending began when the last position of a user was already
\* on the page is unread until its user is shown it, also when the page was
\* read before the message came and recorded after it.
LaterMessagesAreUnread ==
    \A u \in Users : \A m \in Sent \ seen[u] :
        /\ messages[m].sender # u /\ ~Retracted(m)
        /\ reads[u] = NoRow \/ reads[u].id \in sentAfter[m]
        => IsUnread(m, u)

\* A message that is sent keeps its place on the page, and the time at which
\* it was first taken back.
MessagesKeepTheirPlace ==
    [][\A m \in Sent :
          /\ PositionOf(m)' = PositionOf(m)
          /\ Retracted(m) => messages'[m] = messages[m]]_vars

\* What a user has not been shown is not taken for read.  The code does not
\* keep this: a message is stamped when its transaction begins.
UnseenIsUnread ==
    \A u \in Users : \A m \in Sent \ seen[u] :
        messages[m].sender # u /\ ~Retracted(m) => IsUnread(m, u)

=============================================================================
