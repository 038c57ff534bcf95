------------------------- MODULE TradeMessagesProofs -------------------------
(***************************************************************************)
(* Theorems about TradeMessages, for any number of messages, requests and  *)
(* instants.                                                               *)
(***************************************************************************)
EXTENDS TradeMessages, FiniteSetTheorems, TLAPS

-----------------------------------------------------------------------------
(* The invariant. *)

\* What was there when a sending began is stamped no later.
Preceded(after, at) == after \subseteq Sent /\ \A k \in after : messages[k].at <= at

\* A position is that of a message, and nothing of the page comes after it.
EndsAt(page, last) ==
    /\ page \subseteq Sent
    /\ last.id \in Sent /\ last.at = messages[last.id].at
    /\ \A n \in page : ~Before(last, PositionOf(n))

\* What a request in state s knows of the messages.
InOrder(s) ==
    /\ s.pc \in {"send", "press", "pressAndSend", "insert"} =>
          s.at <= clock /\ Preceded(s.after, s.at)
    /\ s.pc = "insert" => s.id \notin Sent /\ \A k \in s.after : k < s.id
    /\ s.pc = "page" => EndsAt(s.page, s.last)
    /\ s.pc = "retract" => s.message \in Sent

RequestsAreInOrder == \A r \in Requests : InOrder(req[r])

IdsAreDrawnOnce ==
    \A q, r \in Requests :
        q # r /\ req[q].pc = "insert" /\ req[r].pc = "insert" => req[q].id # req[r].id

MessagesFollow ==
    \A m \in Sent :
        /\ messages[m].at <= clock
        /\ Preceded(sentAfter[m], messages[m].at)
        /\ \A k \in sentAfter[m] : k < m

ReadsEndWhatWasSeen ==
    \A u \in Users : IF reads[u] = NoRow THEN seen[u] = {} ELSE EndsAt(seen[u], reads[u])

Inv ==
    /\ TypeOK
    /\ RequestsAreInOrder
    /\ IdsAreDrawnOnce
    /\ MessagesFollow
    /\ ReadsEndWhatWasSeen

-----------------------------------------------------------------------------
(* Types and the order of positions. *)

LEMMA NumbersAreNumbers == Times \subseteq Nat /\ Messages \subseteq Nat
<1>1. Cardinality(Messages) \in Nat
  BY MessagesAreNumbered, FS_CardinalityType
<1>2. QED  BY <1>1, MessagesAreNumbered, MaxTimeIsATime DEF Times

LEMMA MessagesHaveTheirFields ==
    ASSUME TypeOK, NEW m \in Sent
    PROVE  m \in Messages /\ m \in Nat /\ messages[m] \in MessageRows /\ messages[m].at \in Nat
BY NumbersAreNumbers DEF TypeOK, Sent, MessageRows

LEMMA RequestsHaveTheirFields ==
    ASSUME TypeOK, NEW r \in Requests
    PROVE  /\ req[r].pc \in {"send", "press", "pressAndSend", "insert"} =>
                 req[r].user \in Users /\ req[r].at \in Times /\ req[r].after \in SUBSET Messages
           /\ req[r].pc = "insert" => req[r].id \in Messages
           /\ req[r].pc = "page" => req[r].user \in Users /\ req[r].page \in SUBSET Messages /\ req[r].last \in Positions
           /\ req[r].pc = "retract" => req[r].user \in Users /\ req[r].message \in Messages /\ req[r].at \in Times
BY DEF TypeOK, RequestStates, Idle

LEMMA PositionsHaveTheirFields ==
    ASSUME NEW p \in Positions
    PROVE  p # NoRow /\ p.at \in Nat /\ p.id \in Nat
BY NumbersAreNumbers, NoRowIsNoRow DEF Positions

\* "Not before" is transitive, and of two positions one is not before the other.
LEMMA OrderOfPositions ==
    ASSUME NEW p, NEW q, NEW w,
           p.at \in Nat, q.at \in Nat, w.at \in Nat, p.id \in Nat, q.id \in Nat, w.id \in Nat
    PROVE  /\ ~Before(p, q) /\ ~Before(q, w) => ~Before(p, w)
           /\ Before(p, q) => ~Before(q, p)
BY DEF Before

\* Times pass and messages stay: what was known of them is still true.
LEMMA KnowledgeStays ==
    ASSUME TypeOK, TypeOK', clock <= clock',
           \A m \in Sent : m \in Sent' /\ messages'[m].at = messages[m].at
    PROVE  /\ \A after, at : Preceded(after, at) => Preceded(after, at)'
           /\ \A page, last : EndsAt(page, last) => EndsAt(page, last)'
BY DEF Preceded, EndsAt, PositionOf

\* A step after which the messages, and what a request knows of them, are in
\* order keeps the invariant.
LEMMA StepsKeepInv ==
    ASSUME Inv, TypeOK', NEW r \in Requests, NEW state,
           req' = [req EXCEPT ![r] = state],
           clock <= clock',
           \A m \in Sent : m \in Sent' /\ messages'[m].at = messages[m].at,
           \A s : s = state => InOrder(s)',
           \A q \in Requests \ {r} : req[q].pc = "insert" =>
               /\ req[q].id \notin Sent'
               /\ state.pc = "insert" => req[q].id # state.id,
           MessagesFollow', ReadsEndWhatWasSeen'
    PROVE  Inv'
<1>1. \A q \in Requests : req'[q] = IF q = r THEN state ELSE req[q]
  BY DEF Inv, TypeOK
<1>2. RequestsAreInOrder'
  <2> SUFFICES ASSUME NEW q \in Requests
               PROVE  InOrder(req[q])'
    BY DEF RequestsAreInOrder
  <2>1. CASE q = r
    BY <1>1, <2>1
  <2>2. CASE q # r
    <3>1. req'[q] = req[q] /\ InOrder(req[q])
      BY <1>1, <2>2 DEF Inv, RequestsAreInOrder
    <3>2. req[q].pc \in {"send", "press", "pressAndSend", "insert"} =>
             req[q].at \in Nat /\ clock \in Nat /\ clock' \in Nat
      BY RequestsHaveTheirFields, NumbersAreNumbers DEF Inv, TypeOK
    <3>3. /\ Preceded(req[q].after, req[q].at) => \A a, t : a = req[q].after /\ t = req[q].at => Preceded(a, t)'
          /\ EndsAt(req[q].page, req[q].last) => \A a, t : a = req[q].page /\ t = req[q].last => EndsAt(a, t)'
      BY KnowledgeStays DEF Inv
    <3>4. /\ req[q].pc = "insert" => req[q].id \notin Sent'
          /\ \A m \in Sent : m \in Sent'
      BY <2>2
    <3>5. QED  BY <3>1, <3>2, <3>3, <3>4 DEF InOrder
  <2>3. QED  BY <2>1, <2>2
<1>3. IdsAreDrawnOnce'
  BY <1>1 DEF Inv, IdsAreDrawnOnce
<1>4. QED  BY <1>2, <1>3 DEF Inv

-----------------------------------------------------------------------------
(* Steps that change no row. *)

LEMMA InitHasInv == Init => Inv
<1> SUFFICES ASSUME Init
             PROVE  Inv
  OBVIOUS
<1>1. Sent = {}
  BY DEF Init, Sent
<1>2. TypeOK
  BY MaxTimeIsATime DEF Init, TypeOK, Times, RequestStates
<1>3. \A r \in Requests : req[r] = Idle /\ Idle.pc = "idle"
  BY DEF Init, Idle
<1>4. RequestsAreInOrder /\ IdsAreDrawnOnce
  BY <1>3 DEF RequestsAreInOrder, IdsAreDrawnOnce, InOrder
<1>5. MessagesFollow /\ ReadsEndWhatWasSeen
  BY <1>1 DEF Init, MessagesFollow, ReadsEndWhatWasSeen
<1>6. QED  BY <1>2, <1>4, <1>5 DEF Inv

\* A request moves to a state that is in order.
LEMMA MovesKeepInv ==
    ASSUME Inv, NEW r \in Requests, NEW state \in RequestStates,
           req' = [req EXCEPT ![r] = state], UNCHANGED <<clock, messages, sentAfter, presses, reads, seen>>,
           InOrder(state),
           state.pc = "insert" => \A q \in Requests : req[q].pc = "insert" => req[q].id # state.id
    PROVE  Inv'
<1>1. TypeOK'
  BY DEF Inv, TypeOK
<1>2. /\ clock <= clock' /\ Sent' = Sent
      /\ \A m \in Sent : m \in Sent' /\ messages'[m].at = messages[m].at
  BY NumbersAreNumbers DEF Inv, TypeOK, Sent
<1>3. \A s : s = state => InOrder(s)'
  BY <1>2 DEF InOrder, Preceded, EndsAt, PositionOf, Before
<1>4. \A q \in Requests \ {r} : req[q].pc = "insert" =>
          /\ req[q].id \notin Sent'
          /\ state.pc = "insert" => req[q].id # state.id
  BY <1>2 DEF Inv, RequestsAreInOrder, InOrder
<1>5. MessagesFollow' /\ ReadsEndWhatWasSeen'
  BY <1>2 DEF Inv, MessagesFollow, ReadsEndWhatWasSeen, Preceded, EndsAt, PositionOf, Before
<1>6. QED  BY <1>1, <1>2, <1>3, <1>4, <1>5, StepsKeepInv

LEMMA RestIsInOrder == Idle \in RequestStates /\ Idle.pc = "idle" /\ InOrder(Idle)
BY DEF Idle, RequestStates, InOrder

LEMMA TickKeepsInv == Inv /\ Tick => Inv'
<1> SUFFICES ASSUME Inv, Tick
             PROVE  Inv'
  OBVIOUS
<1>1. TypeOK' /\ clock \in Nat /\ clock' = clock + 1 /\ Sent' = Sent
  BY NumbersAreNumbers, MaxTimeIsATime DEF Inv, TypeOK, Tick, Times, Sent
<1>2. /\ \A after, at : Preceded(after, at) => Preceded(after, at)'
      /\ \A page, last : EndsAt(page, last) => EndsAt(page, last)'
  BY <1>1, KnowledgeStays DEF Inv, Tick
<1>3. RequestsAreInOrder'
  <2> SUFFICES ASSUME NEW q \in Requests
               PROVE  InOrder(req[q])'
    BY DEF RequestsAreInOrder
  <2>1. req'[q] = req[q] /\ InOrder(req[q])
    BY DEF Tick, Inv, RequestsAreInOrder
  <2>2. req[q].pc \in {"send", "press", "pressAndSend", "insert"} => req[q].at \in Nat
    BY RequestsHaveTheirFields, NumbersAreNumbers DEF Inv
  <2>3. /\ Preceded(req[q].after, req[q].at) => \A a, t : a = req[q].after /\ t = req[q].at => Preceded(a, t)'
        /\ EndsAt(req[q].page, req[q].last) => \A a, t : a = req[q].page /\ t = req[q].last => EndsAt(a, t)'
    BY <1>2
  <2>4. QED  BY <1>1, <2>1, <2>2, <2>3 DEF InOrder
<1>4. IdsAreDrawnOnce'
  BY DEF Inv, Tick, IdsAreDrawnOnce
<1>5. MessagesFollow'
  <2> SUFFICES ASSUME NEW m \in Sent
               PROVE  /\ messages[m].at <= clock'
                      /\ Preceded(sentAfter[m], messages[m].at)'
                      /\ \A k \in sentAfter[m] : k < m
    BY <1>1 DEF MessagesFollow, Tick
  <2>1. messages[m].at \in Nat /\ messages[m].at <= clock /\ Preceded(sentAfter[m], messages[m].at)
    BY MessagesHaveTheirFields DEF Inv, MessagesFollow
  <2>2. Preceded(sentAfter[m], messages[m].at)'
    BY <2>1, <1>1 DEF Preceded, Tick
  <2>3. QED  BY <1>1, <2>1, <2>2 DEF Inv, MessagesFollow
<1>6. ReadsEndWhatWasSeen'
  BY <1>1 DEF Tick, Inv, ReadsEndWhatWasSeen, EndsAt, PositionOf, Before
<1>7. QED  BY <1>1, <1>3, <1>4, <1>5, <1>6 DEF Inv

LEMMA BeginKeepsInv ==
    ASSUME Inv, NEW r \in Requests, NEW state \in RequestStates, Begin(r, state),
           InOrder(state), state.pc # "insert"
    PROVE  Inv'
BY MovesKeepInv DEF Begin

LEMMA AbortKeepsInv ==
    ASSUME Inv, NEW r \in Requests, Abort(r)
    PROVE  Inv'
BY MovesKeepInv, RestIsInOrder DEF Abort, Return

\* All that is there when a sending begins is stamped by then.
LEMMA SendingsBeginAfterWhatIsThere ==
    ASSUME Inv
    PROVE  /\ clock \in Times /\ clock \in Nat /\ Sent \in SUBSET Messages
           /\ Preceded(Sent, clock) /\ Preceded({}, clock)
BY NumbersAreNumbers DEF Inv, TypeOK, MessagesFollow, Preceded, Sent

LEMMA CreateTradeMessageBeginKeepsInv ==
    ASSUME Inv, NEW r \in Requests, NEW u \in Users, CreateTradeMessageBegin(r, u)
    PROVE  Inv'
<1> DEFINE state == [pc |-> "send", user |-> u, at |-> clock, after |-> Sent]
<1>1. state \in RequestStates
  BY SendingsBeginAfterWhatIsThere DEF RequestStates
<1>2. state.pc = "send" /\ state.at = clock /\ state.after = Sent /\ Begin(r, state)
  BY DEF CreateTradeMessageBegin
<1> HIDE DEF state
<1>3. InOrder(state)
  BY <1>2, SendingsBeginAfterWhatIsThere DEF InOrder
<1>4. QED  BY <1>1, <1>2, <1>3, BeginKeepsInv

LEMMA CompleteTradeBeginKeepsInv ==
    ASSUME Inv, NEW r \in Requests, NEW u \in Users, NEW pc \in {"press", "pressAndSend"},
           CompleteTradeBegin(r, u, pc)
    PROVE  Inv'
<1> DEFINE there == IF pc = "press" THEN {} ELSE Sent
           state == [pc |-> pc, user |-> u, at |-> clock, after |-> there]
<1>1. there \in SUBSET Messages /\ Preceded(there, clock)
  BY SendingsBeginAfterWhatIsThere
<1>2. Begin(r, state)
  BY DEF CompleteTradeBegin
<1> HIDE DEF there
<1>3. state \in RequestStates
  BY <1>1, SendingsBeginAfterWhatIsThere DEF RequestStates
<1>4. state.pc \in {"press", "pressAndSend"} /\ state.at = clock /\ state.after = there
  OBVIOUS
<1> HIDE DEF state
<1>5. InOrder(state)
  BY <1>1, <1>4, SendingsBeginAfterWhatIsThere DEF InOrder
<1>6. QED  BY <1>2, <1>3, <1>4, <1>5, BeginKeepsInv

LEMMA GetTradeMessagesKeepsInv ==
    ASSUME Inv, NEW r \in Requests, NEW u \in Users, GetTradeMessages(r, u)
    PROVE  Inv'
<1>1. PICK latest \in Sent :
          /\ IsLatest(latest, Sent)
          /\ Begin(r, [pc |-> "page", user |-> u, page |-> Sent, last |-> LastReadPosition(latest)])
  BY DEF GetTradeMessages
<1> DEFINE last == LastReadPosition(latest)
           state == [pc |-> "page", user |-> u, page |-> Sent, last |-> last]
<1>2. last \in Positions /\ last.id = latest /\ last.at = messages[latest].at /\ last = PositionOf(latest)
  BY MessagesHaveTheirFields DEF Inv, LastReadPosition, PositionOf, Positions, MessageRows
<1>3. EndsAt(Sent, last)
  <2> SUFFICES ASSUME NEW n \in Sent
               PROVE  ~Before(last, PositionOf(n))
    BY <1>2 DEF EndsAt
  <2>1. PositionOf(n).at \in Nat /\ PositionOf(n).id \in Nat /\ last.at \in Nat /\ last.id \in Nat
    BY MessagesHaveTheirFields, <1>2 DEF Inv, PositionOf
  <2>2. n = latest \/ Before(PositionOf(n), last)
    BY <1>1, <1>2 DEF IsLatest
  <2>3. QED  BY <1>2, <2>1, <2>2 DEF Before
<1> HIDE DEF last
<1>4. state \in RequestStates
  BY <1>2, SendingsBeginAfterWhatIsThere DEF RequestStates
<1>5. state.pc = "page" /\ state.page = Sent /\ state.last = last
  OBVIOUS
<1>6. Begin(r, state)
  BY <1>1 DEF last
<1> HIDE DEF state
<1>7. InOrder(state)
  BY <1>3, <1>5 DEF InOrder
<1>8. QED  BY <1>4, <1>5, <1>6, <1>7, BeginKeepsInv

LEMMA RetractTradeMessageBeginKeepsInv ==
    ASSUME Inv, NEW r \in Requests, NEW u \in Users, NEW m \in Messages, RetractTradeMessageBegin(r, u, m)
    PROVE  Inv'
<1> DEFINE state == [pc |-> "retract", user |-> u, message |-> m, at |-> clock]
<1>1. state \in RequestStates
  BY SendingsBeginAfterWhatIsThere DEF RequestStates
<1>2. InOrder(state)
  BY DEF InOrder, RetractTradeMessageBegin
<1>3. QED  BY <1>1, <1>2, BeginKeepsInv DEF RetractTradeMessageBegin

\* An id that is drawn is new.
LEMMA NextIdsAreNew ==
    ASSUME Inv, NEW n \in Messages, IsNextId(n)
    PROVE  /\ n \notin Sent /\ \A k \in Sent : k < n
           /\ \A q \in Requests : req[q].pc = "insert" => req[q].id # n
<1>1. n \in Nat
  BY NumbersAreNumbers
<1>2. QED  BY <1>1 DEF IsNextId, Drawn

LEMMA CreateTradeMessageInsertKeepsInv ==
    ASSUME Inv, NEW r \in Requests, CreateTradeMessageInsert(r)
    PROVE  Inv'
<1>1. CASE ~InProgress
  BY <1>1, MovesKeepInv, RestIsInOrder DEF CreateTradeMessageInsert, Return
<1>2. CASE InProgress
  <2>1. PICK n \in Messages :
            /\ IsNextId(n)
            /\ req' = [req EXCEPT ![r] = [pc |-> "insert", user |-> @.user, at |-> @.at,
                                          after |-> @.after, id |-> n]]
    BY <1>2 DEF CreateTradeMessageInsert
  <2> DEFINE state == [pc |-> "insert", user |-> req[r].user, at |-> req[r].at, after |-> req[r].after, id |-> n]
  <2>2. /\ req[r].pc = "send" /\ req' = [req EXCEPT ![r] = state]
        /\ UNCHANGED <<clock, messages, sentAfter, presses, reads, seen>>
    BY <1>2, <2>1 DEF CreateTradeMessageInsert, Inv, TypeOK
  <2>3. state \in RequestStates
    BY <2>2, RequestsHaveTheirFields DEF Inv, RequestStates
  <2>4. state.pc = "insert" /\ state.at = req[r].at /\ state.after = req[r].after /\ state.id = n
    OBVIOUS
  <2> HIDE DEF state
  <2>5. req[r].at <= clock /\ Preceded(req[r].after, req[r].at)
    BY <2>2 DEF Inv, RequestsAreInOrder, InOrder
  <2>6. InOrder(state)
    BY <2>1, <2>4, <2>5, NextIdsAreNew DEF InOrder, Preceded
  <2>7. QED  BY <2>1, <2>2, <2>3, <2>4, <2>6, NextIdsAreNew, MovesKeepInv
<1>3. QED  BY <1>1, <1>2

-----------------------------------------------------------------------------
(* Steps that change rows. *)

\* A new row with an id after all others, stamped after all it followed.
LEMMA InsertedRows ==
    ASSUME Inv, NEW n \in Messages, NEW u \in Users, NEW at \in Times, NEW after \in SUBSET Messages,
           n \notin Sent, Insert(n, NewMessage(u, at), after),
           clock' = clock, UNCHANGED <<reads, seen>>,
           at <= clock, Preceded(after, at), \A k \in after : k < n
    PROVE  /\ messages' \in [Messages -> MessageRows \cup {NoRow}]
           /\ sentAfter' \in [Messages -> SUBSET Messages]
           /\ Sent' = Sent \cup {n}
           /\ \A m \in Sent : m \in Sent' /\ messages'[m] = messages[m]
           /\ MessagesFollow' /\ ReadsEndWhatWasSeen'
<1> DEFINE row == NewMessage(u, at)
<1>1. row \in MessageRows /\ row # NoRow /\ row.at = at
  BY NoRowIsNoRow DEF NewMessage, MessageRows
<1> HIDE DEF row
<1>2. /\ messages' = [messages EXCEPT ![n] = row] /\ sentAfter' = [sentAfter EXCEPT ![n] = after]
      /\ messages \in [Messages -> MessageRows \cup {NoRow}]
      /\ sentAfter \in [Messages -> SUBSET Messages]
  BY DEF Insert, row, Inv, TypeOK
<1>3. /\ messages' \in [Messages -> MessageRows \cup {NoRow}]
      /\ sentAfter' \in [Messages -> SUBSET Messages]
  BY <1>1, <1>2
<1>4. /\ Sent' = Sent \cup {n}
      /\ messages'[n] = row /\ sentAfter'[n] = after
      /\ \A m \in Sent : m # n /\ m \in Sent' /\ messages'[m] = messages[m] /\ sentAfter'[m] = sentAfter[m]
  BY <1>1, <1>2 DEF Sent
<1>5. \A a, t : Preceded(a, t) => Preceded(a, t)'
  BY <1>4 DEF Preceded
<1>6. \A a, t : EndsAt(a, t) => EndsAt(a, t)'
  BY <1>4 DEF EndsAt, PositionOf
<1>7. MessagesFollow'
  <2> SUFFICES ASSUME NEW m \in Sent'
               PROVE  /\ messages'[m].at <= clock
                      /\ Preceded(sentAfter[m], messages[m].at)'
                      /\ \A k \in sentAfter'[m] : k < m
    BY DEF MessagesFollow
  <2>1. CASE m \in Sent
    <3>1. /\ messages[m].at <= clock /\ Preceded(sentAfter[m], messages[m].at)
          /\ \A k \in sentAfter[m] : k < m
      BY <2>1 DEF Inv, MessagesFollow
    <3>2. messages'[m] = messages[m] /\ sentAfter'[m] = sentAfter[m]
      BY <1>4, <2>1
    <3>3. \A a, t : a = sentAfter[m] /\ t = messages[m].at => Preceded(a, t)'
      BY <3>1, <1>5
    <3>4. QED  BY <3>1, <3>2, <3>3
  <2>2. CASE m = n
    <3>1. messages'[m].at = at /\ sentAfter'[m] = after
      BY <1>1, <1>4, <2>2
    <3>2. \A a, t : a = after /\ t = at => Preceded(a, t)'
      BY <1>5
    <3>3. QED  BY <2>2, <3>1, <3>2
  <2>3. QED  BY <1>4, <2>1, <2>2
<1>8. ReadsEndWhatWasSeen'
  <2> SUFFICES ASSUME NEW v \in Users
               PROVE  (IF reads[v] = NoRow THEN seen[v] = {} ELSE EndsAt(seen[v], reads[v]))'
    BY DEF ReadsEndWhatWasSeen
  <2>1. IF reads[v] = NoRow THEN seen[v] = {} ELSE EndsAt(seen[v], reads[v])
    BY DEF Inv, ReadsEndWhatWasSeen
  <2>2. EndsAt(seen[v], reads[v]) => \A a, t : a = seen[v] /\ t = reads[v] => EndsAt(a, t)'
    BY <1>6
  <2>3. QED  BY <2>1, <2>2
<1>9. QED  BY <1>3, <1>4, <1>7, <1>8

LEMMA ReturnsAreTyped ==
    ASSUME TypeOK, NEW r \in Requests, Return(r)
    PROVE  req' \in [Requests -> RequestStates] /\ clock' = clock /\ clock \in Nat
BY NumbersAreNumbers, RestIsInOrder DEF TypeOK, Return

\* A request that has written its rows returns.
LEMMA ReturnsKeepInv ==
    ASSUME Inv, TypeOK', NEW r \in Requests, Return(r),
           \A m \in Sent : m \in Sent' /\ messages'[m].at = messages[m].at,
           \A q \in Requests \ {r} : req[q].pc = "insert" => req[q].id \notin Sent',
           MessagesFollow', ReadsEndWhatWasSeen'
    PROVE  Inv'
<1>1. /\ req' = [req EXCEPT ![r] = Idle] /\ clock <= clock'
  <2>1. clock' = clock /\ clock \in Nat
    BY ReturnsAreTyped DEF Inv
  <2>2. QED  BY <2>1 DEF Return
<1>2. \A s : s = Idle => InOrder(s)'
  BY DEF InOrder, Idle
<1>3. \A q \in Requests \ {r} : req[q].pc = "insert" =>
               /\ req[q].id \notin Sent'
               /\ Idle.pc = "insert" => req[q].id # Idle.id
  BY RestIsInOrder
<1> HIDE DEF Idle
<1>4. QED  BY <1>1, <1>2, <1>3, StepsKeepInv

LEMMA CreateTradeMessageCommitKeepsInv ==
    ASSUME Inv, NEW r \in Requests, CreateTradeMessageCommit(r)
    PROVE  Inv'
<1> DEFINE n == req[r].id
<1>1. /\ n \in Messages /\ req[r].user \in Users /\ req[r].at \in Times /\ req[r].after \in SUBSET Messages
      /\ req[r].pc = "insert"
  BY RequestsHaveTheirFields DEF Inv, CreateTradeMessageCommit
<1>2. /\ n \notin Sent /\ req[r].at <= clock /\ Preceded(req[r].after, req[r].at)
      /\ \A k \in req[r].after : k < n
  BY <1>1 DEF Inv, RequestsAreInOrder, InOrder
<1>3. /\ Insert(n, NewMessage(req[r].user, req[r].at), req[r].after)
      /\ Return(r) /\ UNCHANGED <<presses, reads, seen>>
  BY DEF CreateTradeMessageCommit
<1>4. \A q \in Requests \ {r} : req[q].pc = "insert" => req[q].id # n /\ req[q].id \notin Sent
  BY <1>1 DEF Inv, IdsAreDrawnOnce, RequestsAreInOrder, InOrder
<1> HIDE DEF n
<1>5. clock' = clock /\ req' \in [Requests -> RequestStates]
  BY <1>3, ReturnsAreTyped DEF Inv
<1>6. /\ messages' \in [Messages -> MessageRows \cup {NoRow}]
      /\ sentAfter' \in [Messages -> SUBSET Messages]
      /\ Sent' = Sent \cup {n}
      /\ \A m \in Sent : m \in Sent' /\ messages'[m] = messages[m]
      /\ MessagesFollow' /\ ReadsEndWhatWasSeen'
  BY <1>1, <1>2, <1>3, <1>5, InsertedRows
<1>7. TypeOK'
  BY <1>3, <1>5, <1>6 DEF Inv, TypeOK
<1>8. QED  BY <1>3, <1>4, <1>6, <1>7, ReturnsKeepInv

LEMMA CompleteTradeCommitKeepsInv ==
    ASSUME Inv, NEW r \in Requests, CompleteTradeCommit(r)
    PROVE  Inv'
<1>1. /\ Return(r) /\ UNCHANGED <<reads, seen>> /\ req[r].user \in Users
      /\ req[r].at \in Times /\ req[r].after \in SUBSET Messages
      /\ req[r].at <= clock /\ Preceded(req[r].after, req[r].at)
      /\ \A q \in Requests : req[q].pc # "insert"
  BY RequestsHaveTheirFields DEF Inv, RequestsAreInOrder, InOrder, CompleteTradeCommit, Drawn
<1>2. /\ clock' = clock /\ req' \in [Requests -> RequestStates] /\ presses' \subseteq Users
  BY <1>1, ReturnsAreTyped DEF Inv, TypeOK, CompleteTradeCommit
<1>3. CASE UNCHANGED <<messages, sentAfter>>
  <2>1. TypeOK' /\ Sent' = Sent
    BY <1>1, <1>2, <1>3 DEF Inv, TypeOK, Sent
  <2>2. MessagesFollow' /\ ReadsEndWhatWasSeen'
    BY <1>1, <1>2, <1>3, <2>1 DEF Inv, MessagesFollow, ReadsEndWhatWasSeen, Preceded, EndsAt, PositionOf, Before
  <2>3. \A m \in Sent : m \in Sent' /\ messages'[m].at = messages[m].at
    BY <1>3, <2>1
  <2>4. QED  BY <1>1, <2>1, <2>2, <2>3, ReturnsKeepInv
<1>4. CASE \E n \in Messages :
               IsNextId(n) /\ Insert(n, NewMessage(req[r].user, req[r].at), req[r].after)
  <2>1. PICK n \in Messages :
            IsNextId(n) /\ Insert(n, NewMessage(req[r].user, req[r].at), req[r].after)
    BY <1>4
  <2>2. n \notin Sent /\ \A k \in req[r].after : k < n
    BY <1>1, <2>1, NextIdsAreNew DEF Preceded
  <2>3. /\ messages' \in [Messages -> MessageRows \cup {NoRow}]
        /\ sentAfter' \in [Messages -> SUBSET Messages]
        /\ \A m \in Sent : m \in Sent' /\ messages'[m] = messages[m]
        /\ MessagesFollow' /\ ReadsEndWhatWasSeen'
    BY <1>1, <1>2, <2>1, <2>2, InsertedRows
  <2>4. TypeOK'
    BY <1>1, <1>2, <2>3 DEF Inv, TypeOK
  <2>5. QED  BY <1>1, <2>3, <2>4, ReturnsKeepInv
<1>5. QED  BY <1>3, <1>4 DEF CompleteTradeCommit

LEMMA MarkTradeMessagesReadKeepsInv ==
    ASSUME Inv, NEW r \in Requests, MarkTradeMessagesRead(r)
    PROVE  Inv'
<1> DEFINE u == req[r].user
           new == UpsertTradeMessageRead(reads[u], req[r].last)
<1>1. /\ Return(r) /\ UNCHANGED <<messages, sentAfter, presses>>
      /\ u \in Users /\ req[r].page \in SUBSET Messages /\ req[r].last \in Positions
      /\ EndsAt(req[r].page, req[r].last)
  BY RequestsHaveTheirFields DEF Inv, RequestsAreInOrder, InOrder, MarkTradeMessagesRead
<1>2. reads' = [reads EXCEPT ![u] = new] /\ seen' = [seen EXCEPT ![u] = seen[u] \cup req[r].page]
  BY DEF MarkTradeMessagesRead, Inv, TypeOK
<1>3. reads \in [Users -> Positions \cup {NoRow}] /\ seen \in [Users -> SUBSET Messages]
  BY DEF Inv, TypeOK
<1>4. new \in Positions
  BY <1>1, <1>3 DEF UpsertTradeMessageRead
<1>5. EndsAt(seen[u] \cup req[r].page, new)
  <2>1. IF reads[u] = NoRow THEN seen[u] = {} ELSE EndsAt(seen[u], reads[u])
    BY <1>1 DEF Inv, ReadsEndWhatWasSeen
  <2>2. EndsAt(req[r].page, new) \/ EndsAt(seen[u], new)
    BY <1>1, <2>1 DEF UpsertTradeMessageRead
  <2>3. SUFFICES ASSUME NEW n \in seen[u] \cup req[r].page
                 PROVE  ~Before(new, PositionOf(n))
    BY <1>1, <2>1, <2>2 DEF EndsAt
  <2>4. /\ PositionOf(n).at \in Nat /\ PositionOf(n).id \in Nat
        /\ req[r].last.at \in Nat /\ req[r].last.id \in Nat
        /\ reads[u] # NoRow => reads[u].at \in Nat /\ reads[u].id \in Nat
    <3>1. n \in Sent
      BY <1>1, <2>1 DEF EndsAt
    <3>2. reads[u] # NoRow => reads[u] \in Positions
      BY <1>1, <1>3
    <3>3. QED  BY <3>1, <3>2, <1>1, MessagesHaveTheirFields, PositionsHaveTheirFields DEF Inv, PositionOf
  <2> DEFINE p == PositionOf(n)
             last == req[r].last
             old == reads[u]
  <2>5. /\ n \in req[r].page => ~Before(last, p)
        /\ n \in seen[u] => old # NoRow /\ ~Before(old, p)
    BY <1>1, <2>1 DEF EndsAt
  <2>6. p.at \in Nat /\ p.id \in Nat /\ last.at \in Nat /\ last.id \in Nat
        /\ (old # NoRow => old.at \in Nat /\ old.id \in Nat)
    BY <2>4
  <2>7. new = IF old = NoRow \/ Before(old, last) THEN last ELSE old
    BY DEF UpsertTradeMessageRead
  <2> HIDE DEF p, last, old, new
  <2>8. CASE old = NoRow
    BY <2>3, <2>5, <2>7, <2>8 DEF p
  <2>9. CASE old # NoRow
    <3>1. /\ old.at \in Nat /\ old.id \in Nat
      BY <2>6, <2>9
    <3>2. /\ Before(old, last) => ~Before(last, old)
          /\ ~Before(last, old) /\ ~Before(old, p) => ~Before(last, p)
          /\ ~Before(old, last) /\ ~Before(last, p) => ~Before(old, p)
      BY <3>1, <2>6, OrderOfPositions
    <3>3. ~Before(new, p)
      BY <3>2, <2>3, <2>5, <2>7, <2>9
    <3>4. QED  BY <3>3 DEF p
  <2>10. QED  BY <2>8, <2>9
<1> HIDE DEF u, new
<1>6. clock' = clock /\ req' \in [Requests -> RequestStates]
  BY <1>1, ReturnsAreTyped DEF Inv
<1>7. TypeOK' /\ Sent' = Sent
  BY <1>1, <1>2, <1>3, <1>4, <1>6 DEF Inv, TypeOK, Sent
<1>8. \A a, t : EndsAt(a, t) => EndsAt(a, t)'
  BY <1>1, <1>7 DEF EndsAt, PositionOf
<1>9. ReadsEndWhatWasSeen'
  <2> SUFFICES ASSUME NEW v \in Users
               PROVE  (IF reads[v] = NoRow THEN seen[v] = {} ELSE EndsAt(seen[v], reads[v]))'
    BY DEF ReadsEndWhatWasSeen
  <2>1. CASE v = u
    <3>1. reads'[v] = new /\ seen'[v] = seen[u] \cup req[r].page
      BY <1>1, <1>2, <1>3, <2>1
    <3>2. \A a, t : a = seen[u] \cup req[r].page /\ t = new => EndsAt(a, t)'
      BY <1>5, <1>8
    <3>3. QED  BY <1>4, <3>1, <3>2, PositionsHaveTheirFields
  <2>2. CASE v # u
    <3>1. reads'[v] = reads[v] /\ seen'[v] = seen[v]
      BY <1>2, <1>3, <2>2
    <3>2. IF reads[v] = NoRow THEN seen[v] = {} ELSE EndsAt(seen[v], reads[v])
      BY DEF Inv, ReadsEndWhatWasSeen
    <3>3. EndsAt(seen[v], reads[v]) => \A a, t : a = seen[v] /\ t = reads[v] => EndsAt(a, t)'
      BY <1>8
    <3>4. QED  BY <3>1, <3>2, <3>3
  <2>3. QED  BY <2>1, <2>2
<1>10. MessagesFollow'
  BY <1>1, <1>6, <1>7 DEF Inv, MessagesFollow, Preceded
<1>11. /\ \A m \in Sent : m \in Sent' /\ messages'[m].at = messages[m].at
       /\ \A q \in Requests \ {r} : req[q].pc = "insert" => req[q].id \notin Sent'
  BY <1>1, <1>7 DEF Inv, RequestsAreInOrder, InOrder
<1>12. QED  BY <1>1, <1>7, <1>9, <1>10, <1>11, ReturnsKeepInv

\* Taking back changes one row, which stays a row of its sender and instant.
LEMMA RetractedRows ==
    ASSUME Inv, NEW r \in Requests, RetractTradeMessageCommit(r)
    PROVE  /\ messages' \in [Messages -> MessageRows \cup {NoRow}]
           /\ Sent' = Sent
           /\ \A m \in Sent : /\ messages'[m].at = messages[m].at
                              /\ messages[m].retractedAt # Never => messages'[m] = messages[m]
<1> DEFINE k == req[r].message
           row == RetractTradeMessage(messages[k], req[r].user, req[r].at)
<1>1. k \in Sent /\ req[r].at \in Times /\ messages' = [messages EXCEPT ![k] = row]
  BY RequestsHaveTheirFields DEF RetractTradeMessageCommit, Inv, TypeOK, RequestsAreInOrder, InOrder
<1>2. messages \in [Messages -> MessageRows \cup {NoRow}] /\ messages[k] \in MessageRows
  BY <1>1, MessagesHaveTheirFields DEF Inv, TypeOK
<1>3. /\ row \in MessageRows /\ row.at = messages[k].at
      /\ messages[k].retractedAt # Never => row = messages[k]
  BY <1>1, <1>2 DEF RetractTradeMessage, MessageRows
<1> HIDE DEF k, row
<1>4. QED  BY <1>1, <1>2, <1>3, NoRowIsNoRow DEF Sent

LEMMA RetractTradeMessageCommitKeepsInv ==
    ASSUME Inv, NEW r \in Requests, RetractTradeMessageCommit(r)
    PROVE  Inv'
<1>1. /\ Return(r) /\ UNCHANGED <<sentAfter, presses, reads, seen>>
  BY DEF RetractTradeMessageCommit
<1>2. clock' = clock /\ req' \in [Requests -> RequestStates]
  BY <1>1, ReturnsAreTyped DEF Inv
<1>3. /\ messages' \in [Messages -> MessageRows \cup {NoRow}]
      /\ Sent' = Sent
      /\ \A m \in Sent : messages'[m].at = messages[m].at
  BY RetractedRows
<1>4. TypeOK'
  BY <1>1, <1>2, <1>3 DEF Inv, TypeOK
<1>5. /\ \A a, t : Preceded(a, t) => Preceded(a, t)'
      /\ \A a, t : EndsAt(a, t) => EndsAt(a, t)'
  BY <1>3 DEF Preceded, EndsAt, PositionOf
<1>6. MessagesFollow'
  <2> SUFFICES ASSUME NEW m \in Sent
               PROVE  /\ messages'[m].at <= clock
                      /\ Preceded(sentAfter[m], messages[m].at)'
                      /\ \A k \in sentAfter[m] : k < m
    BY <1>1, <1>2, <1>3 DEF MessagesFollow
  <2>1. /\ messages[m].at <= clock /\ Preceded(sentAfter[m], messages[m].at)
        /\ \A k \in sentAfter[m] : k < m
    BY DEF Inv, MessagesFollow
  <2>2. \A a, t : a = sentAfter[m] /\ t = messages[m].at => Preceded(a, t)'
    BY <2>1, <1>5
  <2>3. QED  BY <1>1, <1>3, <2>1, <2>2
<1>7. ReadsEndWhatWasSeen'
  <2> SUFFICES ASSUME NEW v \in Users
               PROVE  (IF reads[v] = NoRow THEN seen[v] = {} ELSE EndsAt(seen[v], reads[v]))'
    BY DEF ReadsEndWhatWasSeen
  <2>1. IF reads[v] = NoRow THEN seen[v] = {} ELSE EndsAt(seen[v], reads[v])
    BY DEF Inv, ReadsEndWhatWasSeen
  <2>2. EndsAt(seen[v], reads[v]) => \A a, t : a = seen[v] /\ t = reads[v] => EndsAt(a, t)'
    BY <1>5
  <2>3. QED  BY <1>1, <2>1, <2>2
<1>8. /\ \A m \in Sent : m \in Sent' /\ messages'[m].at = messages[m].at
      /\ \A q \in Requests \ {r} : req[q].pc = "insert" => req[q].id \notin Sent'
  BY <1>3 DEF Inv, RequestsAreInOrder, InOrder
<1>9. QED  BY <1>1, <1>4, <1>6, <1>7, <1>8, ReturnsKeepInv

-----------------------------------------------------------------------------
(* The theorems. *)

LEMMA NextKeepsInv == Inv /\ [Next]_vars => Inv'
<1> SUFFICES ASSUME Inv, [Next]_vars
             PROVE  Inv'
  OBVIOUS
<1>1. CASE Tick
  BY <1>1, TickKeepsInv
<1>2. ASSUME NEW r \in Requests, NEW u \in Users,
             \/ CreateTradeMessageBegin(r, u)
             \/ \E pc \in {"press", "pressAndSend"} : CompleteTradeBegin(r, u, pc)
             \/ GetTradeMessages(r, u)
             \/ \E m \in Messages : RetractTradeMessageBegin(r, u, m)
      PROVE  Inv'
  BY <1>2, CreateTradeMessageBeginKeepsInv, CompleteTradeBeginKeepsInv, GetTradeMessagesKeepsInv,
     RetractTradeMessageBeginKeepsInv
<1>3. ASSUME NEW r \in Requests,
             \/ CreateTradeMessageInsert(r)
             \/ CreateTradeMessageCommit(r)
             \/ CompleteTradeCommit(r)
             \/ MarkTradeMessagesRead(r)
             \/ RetractTradeMessageCommit(r)
             \/ Abort(r)
      PROVE  Inv'
  BY <1>3, CreateTradeMessageInsertKeepsInv, CreateTradeMessageCommitKeepsInv, CompleteTradeCommitKeepsInv,
     MarkTradeMessagesReadKeepsInv, RetractTradeMessageCommitKeepsInv, AbortKeepsInv
<1>4. CASE UNCHANGED vars
  BY <1>4 DEF vars, Inv, TypeOK, RequestsAreInOrder, InOrder, IdsAreDrawnOnce, MessagesFollow,
     ReadsEndWhatWasSeen, Preceded, EndsAt, PositionOf, Before, Sent
<1>5. QED  BY <1>1, <1>2, <1>3, <1>4 DEF Next

\* The invariant holds: what was there when a sending began comes before the
\* message, and nothing that a user was shown comes after the read position.
THEOREM InvHolds == Spec => []Inv
<1>1. Init => Inv
  BY InitHasInv
<1>2. Inv /\ [Next]_vars => Inv'
  BY NextKeepsInv
<1>3. QED  BY <1>1, <1>2, PTL DEF Spec

\* The variables keep their types.
THEOREM TypesHold == Spec => []TypeOK
<1>1. Inv => TypeOK
  BY DEF Inv
<1>2. QED  BY <1>1, InvHolds, PTL

\* What was shown stays read, whatever shares its instant and in whatever
\* order pages are recorded.
THEOREM ShownMessagesStayRead == Spec => []SeenStaysRead
<1>1. ASSUME Inv, NEW u \in Users, NEW m \in seen[u]
      PROVE  ~IsUnread(m, u)
  BY <1>1 DEF Inv, ReadsEndWhatWasSeen, EndsAt, IsUnread
<1>2. Inv => SeenStaysRead
  BY <1>1 DEF SeenStaysRead
<1>3. QED  BY <1>2, InvHolds, PTL

\* What came after the last line a user has read is unread until it is shown.
THEOREM LaterOnesAreUnread == Spec => []LaterMessagesAreUnread
<1>1. ASSUME Inv, NEW u \in Users, NEW m \in Sent \ seen[u],
             messages[m].sender # u, ~Retracted(m),
             reads[u] = NoRow \/ reads[u].id \in sentAfter[m]
      PROVE  IsUnread(m, u)
  <2>1. CASE reads[u] = NoRow
    BY <1>1, <2>1 DEF IsUnread
  <2>2. CASE reads[u] # NoRow
    <3>1. reads[u].id \in Sent /\ reads[u].at = messages[reads[u].id].at
      BY <2>2, <1>1 DEF Inv, ReadsEndWhatWasSeen, EndsAt
    <3>2. reads[u].id < m /\ reads[u].at <= messages[m].at
      BY <1>1, <2>2, <3>1 DEF Inv, MessagesFollow, Preceded
    <3>3. reads[u].at \in Nat /\ messages[m].at \in Nat
      BY <1>1, <3>1, MessagesHaveTheirFields DEF Inv
    <3>4. Before(reads[u], PositionOf(m))
      BY <3>2, <3>3 DEF Before, PositionOf
    <3>5. QED  BY <1>1, <3>4 DEF IsUnread
  <2>3. QED  BY <2>1, <2>2
<1>2. Inv => LaterMessagesAreUnread
  BY <1>1 DEF LaterMessagesAreUnread
<1>3. QED  BY <1>2, InvHolds, PTL

\* A message stays where it is on the page, and is taken back once.
THEOREM MessagesStayInPlace == Spec => MessagesKeepTheirPlace
<1> DEFINE Kept ==
             \A m \in Sent :
                 /\ messages'[m].at = messages[m].at
                 /\ messages[m].retractedAt # Never => messages'[m] = messages[m]
<1>1. ASSUME Inv, NEW n \in Messages, n \notin Sent, NEW row, messages' = [messages EXCEPT ![n] = row]
      PROVE  Kept
  BY <1>1 DEF Inv, TypeOK, Sent
<1>2. ASSUME Inv, [Next]_vars
      PROVE  Kept
  <2>1. CASE messages' = messages
    BY <2>1
  <2>2. ASSUME NEW r \in Requests, CreateTradeMessageCommit(r)
        PROVE  Kept
    <3>1. /\ req[r].id \in Messages /\ req[r].id \notin Sent
          /\ messages' = [messages EXCEPT ![req[r].id] = NewMessage(req[r].user, req[r].at)]
      BY <1>2, <2>2, RequestsHaveTheirFields
      DEF CreateTradeMessageCommit, Insert, Inv, RequestsAreInOrder, InOrder
    <3>2. QED  BY <1>1, <1>2, <3>1
  <2>3. ASSUME NEW r \in Requests, CompleteTradeCommit(r)
        PROVE  Kept
    <3>1. \/ messages' = messages
          \/ \E n \in Messages :
                IsNextId(n) /\ messages' = [messages EXCEPT ![n] = NewMessage(req[r].user, req[r].at)]
      BY <2>3 DEF CompleteTradeCommit, Insert
    <3>2. ASSUME NEW n \in Messages, IsNextId(n),
                 messages' = [messages EXCEPT ![n] = NewMessage(req[r].user, req[r].at)]
          PROVE  Kept
      BY <1>1, <1>2, <3>2, NextIdsAreNew
    <3>3. QED  BY <2>1, <3>1, <3>2
  <2>4. ASSUME NEW r \in Requests, RetractTradeMessageCommit(r)
        PROVE  Kept
    BY <1>2, <2>4, RetractedRows
  <2>5. QED
    BY <1>2, <2>1, <2>2, <2>3, <2>4
    DEF Next, Tick, Begin, CreateTradeMessageBegin, CompleteTradeBegin, GetTradeMessages,
        RetractTradeMessageBegin, CreateTradeMessageInsert, MarkTradeMessagesRead, Abort, vars
<1>3. Inv /\ [Next]_vars => [\A m \in Sent :
          /\ PositionOf(m)' = PositionOf(m)
          /\ Retracted(m) => messages'[m] = messages[m]]_vars
  BY <1>2 DEF PositionOf, Retracted
<1>4. QED  BY <1>3, InvHolds, PTL DEF Spec, MessagesKeepTheirPlace

=============================================================================
