------------------------------ MODULE Masters ------------------------------
(***************************************************************************)
(* The masters of the administration - events, their categories, the goods *)
(* of these, and stations - and what points to them: the items of the      *)
(* users' lists to goods, the places of users to stations.                 *)
(*                                                                         *)
(* The four kinds have the same operations: create, and, from a screen     *)
(* that carries the version of the row, update, archive, unarchive and     *)
(* delete.  Master m lies under Parent[m]; an event or a station has none. *)
(* A row in use is archived, not deleted; deleting a row and beginning to  *)
(* use it exclude each other by the lock of the row.                       *)
(***************************************************************************)
EXTENDS Naturals, FiniteSets

CONSTANTS
    Masters,        \* numbered: parents before children, stations by id
    Parent,         \* the category of goods, the event of a category
    NoParent,
    Goods,          \* the masters items point to
    Stations,       \* the masters places point to
    Seeded,         \* the masters that are there at the start
    Users,
    Requests,       \* screens that are open and requests in flight
    Names,          \* what an update may change
    NoRow,          \* "no such row"
    NoRequest,      \* "nobody holds the lock"
    MaxVersion,     \* bound: no screen is opened on a row of this version
    MaxChanged,     \* bound: masters that are changed
    MaxChanges      \* bound: no screen is opened after so many changes

ASSUME MastersAreNumbered == Masters \subseteq Nat /\ NoParent \notin Nat
ASSUME ParentsComeFirst ==
    /\ Parent \in [Masters -> Masters \cup {NoParent}]
    /\ \A m \in Masters : Parent[m] # NoParent => Parent[m] < m
ASSUME GoodsAndStations ==
    /\ Goods \subseteq Masters /\ Stations \subseteq Masters
    /\ \A s \in Stations : s \notin Goods /\ Parent[s] = NoParent
ASSUME SeededAreMasters == Seeded \subseteq Masters
ASSUME NoRequestIsNoRequest == NoRequest \notin Requests

VARIABLES
    masters,        \* events, event_categories, goods, stations
    items,          \* the goods some item points to, listed or removed
    alive,          \* users: deleted_at IS NULL
    places,         \* user_stations
    placeVersion,   \* users.place_lock_version
    masterLock,     \* the request that holds the row of a master
    userLock,       \* the request that holds the row of a user
    req             \* where each request stands

database == <<masters, items, alive, places, placeVersion>>
vars == <<database, masterLock, userLock, req>>

MasterRows == [status: {"published", "archived", "deleted"}, name: Names, version: Nat]
ASSUME NoRowIsNoMaster == NoRow \notin MasterRows

Operations == {"update", "archive", "unarchive", "delete"}

Idle == [pc |-> "idle"]
RequestStates ==
    {Idle}
    \cup [pc: {"create"}, master: Masters, name: Names]
    \cup [pc: {"screen"}, master: Masters, shown: MasterRows]
    \cup [pc: {"write"}, op: Operations, master: Masters, version: Nat, name: Names]
    \cup [pc: {"add"}, goods: Goods, todo: SUBSET Masters]
    \cup [pc: {"placesScreen"}, user: Users, version: Nat, shown: SUBSET Stations]
    \cup [pc: {"placesLock"}, user: Users, version: Nat, chosen: SUBSET Stations]
    \cup [pc: {"places"}, user: Users, chosen: SUBSET Stations, todo: SUBSET Stations]

TypeOK ==
    /\ masters \in [Masters -> MasterRows \cup {NoRow}]
    /\ items \subseteq Goods
    /\ alive \in [Users -> BOOLEAN]
    /\ places \in [Users -> SUBSET Stations]
    /\ placeVersion \in [Users -> Nat]
    /\ masterLock \in [Masters -> Requests \cup {NoRequest}]
    /\ userLock \in [Users -> Requests \cup {NoRequest}]
    /\ req \in [Requests -> RequestStates]

NewMaster(name) == [status |-> "published", name |-> name, version |-> 0]

Init ==
    /\ \E name \in Names : masters = [m \in Masters |-> IF m \in Seeded THEN NewMaster(name) ELSE NoRow]
    /\ items = {}
    /\ alive = [u \in Users |-> TRUE]
    /\ places = [u \in Users |-> {}]
    /\ placeVersion = [u \in Users |-> 0]
    /\ masterLock = [m \in Masters |-> NoRequest]
    /\ userLock = [u \in Users |-> NoRequest]
    /\ req = [r \in Requests |-> Idle]

-----------------------------------------------------------------------------
Above(m) ==
    IF Parent[m] = NoParent THEN {}
    ELSE {Parent[m]} \cup IF Parent[Parent[m]] = NoParent THEN {} ELSE {Parent[Parent[m]]}

Line(m) == {m} \cup Above(m)

In(statuses, ms) == \A m \in ms : masters[m] # NoRow /\ masters[m].status \in statuses

Undeleted(ms) == In({"published", "archived"}, ms)
Published(ms) == In({"published"}, ms)

\* What the validators of a deletion look for: items of goods at or below m,
\* users who have chosen the station.
Referenced(m) == (\E g \in items : m \in Line(g)) \/ (\E u \in Users : m \in places[u])

-----------------------------------------------------------------------------
(* How a request moves, and for whom it waits. *)

\* Wrong on purpose: the stations of a form without ORDER BY id.
NextInOrderButStations(todo) ==
    IF todo \subseteq Stations THEN todo ELSE {m \in todo : \A n \in todo : m <= n}

NextInOrder(todo) == {m \in todo : \A n \in todo : m <= n}

\* The rows of masters the next statement of r needs; LOCK ... takes one more.
Needs(r) ==
    LET s == req[r]
    IN  CASE s.pc = "write" -> {s.master}
          [] s.pc \in {"add", "places"} -> NextInOrder(s.todo)
          [] OTHER -> {}

\* Those the request waits for, if every row it may take next is held.
Blockers(r) ==
    LET s == req[r]
    IN  IF s.pc = "placesLock" THEN {userLock[s.user]} \ {NoRequest}
        ELSE IF \A m \in Needs(r) : masterLock[m] # NoRequest THEN {masterLock[m] : m \in Needs(r)}
        ELSE {}

At(r, pc) == req[r].pc = pc /\ Blockers(r) = {}

Begin(r, state) ==
    /\ req' = [req EXCEPT ![r] = state]
    /\ UNCHANGED <<database, masterLock, userLock>>

Return(r) ==
    /\ req' = [req EXCEPT ![r] = Idle]
    /\ masterLock' = [m \in Masters |-> IF masterLock[m] = r THEN NoRequest ELSE masterLock[m]]
    /\ userLock' = [u \in Users |-> IF userLock[u] = r THEN NoRequest ELSE userLock[u]]

Refuse(r) == Return(r) /\ UNCHANGED database

\* A failed statement, a lost client, the end of the process, a screen that is
\* closed.
Abort(r) == req[r] # Idle /\ Refuse(r)

LockNext(r, pc) ==
    /\ req[r].pc = pc
    /\ \E m \in NextInOrder(req[r].todo) :
          /\ masterLock[m] = NoRequest
          /\ masterLock' = [masterLock EXCEPT ![m] = r]
          /\ req' = [req EXCEPT ![r].todo = @ \ {m}]
    /\ UNCHANGED <<database, userLock>>

-----------------------------------------------------------------------------
(* The administration. *)

\* The masters above are read without a lock.
CreateMasterBegin(r, m, name) ==
    /\ masters[m] = NoRow /\ ~\E q \in Requests : req[q].pc = "create" /\ req[q].master = m
    /\ Undeleted(Above(m))
    /\ Begin(r, [pc |-> "create", master |-> m, name |-> name])

CreateMaster(r) ==
    /\ At(r, "create")
    /\ masters' = [masters EXCEPT ![req[r].master] = NewMaster(req[r].name)]
    /\ Return(r)
    /\ UNCHANGED <<items, alive, places, placeVersion>>

Changed == {m \in Masters : masters[m] # NoRow /\ masters[m].version > 0}
OnScreen == {req[r].master : r \in {q \in Requests : req[q].pc \in {"screen", "write"}}}

ChangesSoFar ==
    Cardinality({c \in Masters \X (1..MaxVersion) :
                    masters[c[1]] # NoRow /\ c[2] <= masters[c[1]].version})
        + Cardinality({c \in Users \X (1..MaxVersion) : c[2] <= placeVersion[c[1]]})

\* Bounds: MaxVersion, MaxChanged, MaxChanges.
OpenScreen(r, m) ==
    /\ Undeleted(Line(m))
    /\ masters[m].version < MaxVersion /\ ChangesSoFar < MaxChanges
    /\ Cardinality(Changed \cup OnScreen \cup {m}) <= MaxChanged
    /\ Begin(r, [pc |-> "screen", master |-> m, shown |-> masters[m]])

\* The request finds the row and those above undeleted, without a lock, and
\* something to archive or unarchive; one that deletes looks later.
SendScreen(r, op, name) ==
    /\ LET m == req[r].master
       IN  IF /\ op # "delete" => Undeleted(Line(m))
              /\ op = "archive" => masters[m].status = "published"
              /\ op = "unarchive" => masters[m].status = "archived"
           THEN /\ req' = [req EXCEPT ![r] = [pc |-> "write", op |-> op, master |-> m,
                                              version |-> @.shown.version, name |-> name]]
                /\ UNCHANGED <<database, masterLock, userLock>>
           ELSE Refuse(r)

\* Wrong on purpose: a screen of before the archiving may still save.
ChangeKeepingVersion(row, op, name) ==
    CASE op = "update" -> [row EXCEPT !.name = name, !.version = @ + 1]
      [] op = "archive" -> [row EXCEPT !.status = "archived"]
      [] op = "unarchive" -> [row EXCEPT !.status = "published", !.version = @ + 1]
      [] op = "delete" -> [row EXCEPT !.status = "deleted", !.version = @ + 1]

Change(row, op, name) ==
    CASE op = "update" -> [row EXCEPT !.name = name, !.version = @ + 1]
      [] op = "archive" -> [row EXCEPT !.status = "archived", !.version = @ + 1]
      [] op = "unarchive" -> [row EXCEPT !.status = "published", !.version = @ + 1]
      [] op = "delete" -> [row EXCEPT !.status = "deleted", !.version = @ + 1]

\* The conditions of the UPDATE.
Changeable(row, op, version) ==
    /\ row.version = version
    /\ row.status \in CASE op \in {"update", "delete"} -> {"published", "archived"}
                        [] op = "archive" -> {"published"}
                        [] op = "unarchive" -> {"archived"}

\* Wrong on purpose: only what is listed under the row itself is looked for.
UnreferencedItself(m) == m \notin items /\ ~\E u \in Users : m \in places[u]

Unreferenced(m) == ~Referenced(m)

\* One statement, after the wait for the row.  A deletion locks the row first
\* and then looks for references: while it holds the row, none can be added.
WriteMaster(r) ==
    /\ At(r, "write")
    /\ LET s == req[r]
           row == masters[s.master]
       IN  IF /\ Changeable(row, s.op, s.version)
              /\ s.op = "delete" => Undeleted(Above(s.master)) /\ Unreferenced(s.master)
           THEN /\ masters' = [masters EXCEPT ![s.master] = Change(row, s.op, s.name)]
                /\ Return(r)
                /\ UNCHANGED <<items, alive, places, placeVersion>>
           ELSE Refuse(r)

-----------------------------------------------------------------------------
(* Items. *)

CreateItemBegin(r, g) ==
    /\ Published(Line(g))
    /\ Begin(r, [pc |-> "add", goods |-> g, todo |-> Line(g)])

\* Wrong on purpose: what was read before the locks is taken to hold.
StillThere(ms) == TRUE

PublishedWhenLocked(ms) == Published(ms)

\* The event, the category and the goods are locked and read again.
CreateItem(r) ==
    /\ At(r, "add") /\ req[r].todo = {}
    /\ IF PublishedWhenLocked(Line(req[r].goods))
       THEN /\ items' = items \cup {req[r].goods}
            /\ Return(r)
            /\ UNCHANGED <<masters, alive, places, placeVersion>>
       ELSE Refuse(r)

-----------------------------------------------------------------------------
(* Places. *)

OpenPlaces(r, u) ==
    /\ alive[u]
    /\ placeVersion[u] < MaxVersion /\ ChangesSoFar < MaxChanges
    /\ Begin(r, [pc |-> "placesScreen", user |-> u, version |-> placeVersion[u], shown |-> places[u]])

SendPlaces(r, chosen) ==
    /\ At(r, "placesScreen")
    /\ req' = [req EXCEPT ![r] = [pc |-> "placesLock", user |-> @.user, version |-> @.version, chosen |-> chosen]]
    /\ UNCHANGED <<database, masterLock, userLock>>

UpdatePlacesLock(r) ==
    /\ At(r, "placesLock")
    /\ LET s == req[r]
       IN  IF alive[s.user] /\ placeVersion[s.user] = s.version
           THEN /\ userLock' = [userLock EXCEPT ![s.user] = r]
                /\ req' = [req EXCEPT ![r] = [pc |-> "places", user |-> s.user,
                                              chosen |-> s.chosen, todo |-> s.chosen]]
                /\ UNCHANGED <<database, masterLock>>
           ELSE Refuse(r)

\* A published station, or an archived one that the user has already.
Selectable(s, u) == Published({s}) \/ (In({"archived"}, {s}) /\ s \in places[u])

UpdatePlaces(r) ==
    /\ At(r, "places") /\ req[r].todo = {}
    /\ LET s == req[r]
       IN  IF \A station \in s.chosen : Selectable(station, s.user)
           THEN /\ places' = [places EXCEPT ![s.user] = s.chosen]
                /\ placeVersion' = [placeVersion EXCEPT ![s.user] = @ + 1]
                /\ Return(r)
                /\ UNCHANGED <<masters, items, alive>>
           ELSE Refuse(r)

\* DeleteAccount, of which only this part is told here, waits for the row of
\* the user.
DeleteAccount(u) ==
    /\ alive[u] /\ userLock[u] = NoRequest
    /\ alive' = [alive EXCEPT ![u] = FALSE]
    /\ places' = [places EXCEPT ![u] = {}]
    /\ UNCHANGED <<masters, items, placeVersion, masterLock, userLock, req>>

-----------------------------------------------------------------------------
BeginRequest(r) ==
    /\ req[r] = Idle
    /\ \/ \E m \in Masters :
             \/ OpenScreen(r, m)
             \/ \E name \in Names : CreateMasterBegin(r, m, name)
       \/ \E g \in Goods : CreateItemBegin(r, g)
       \/ \E u \in Users : OpenPlaces(r, u)

SendForm(r) ==
    \/ req[r].pc = "screen" /\ \E name \in Names : SendScreen(r, "update", name)
    \/ req[r].pc = "screen" /\ \E op \in Operations \ {"update"} : SendScreen(r, op, req[r].shown.name)
    \/ \E chosen \in SUBSET Stations : SendPlaces(r, chosen)

Continue(r) ==
    \/ CreateMaster(r)
    \/ WriteMaster(r)
    \/ LockNext(r, "add")
    \/ CreateItem(r)
    \/ UpdatePlacesLock(r)
    \/ LockNext(r, "places")
    \/ UpdatePlaces(r)

Next ==
    \/ \E r \in Requests : BeginRequest(r) \/ SendForm(r) \/ Continue(r) \/ Abort(r)
    \/ \E u \in Users : DeleteAccount(u)

Spec == Init /\ [][Next]_vars

-----------------------------------------------------------------------------
(* What must hold. *)

\* What an item or a place points to, and what lies above it, is never deleted,
\* however the deletion of an event, a category, goods or a station overlaps
\* with additions that have already looked at them.
ReferencesStand ==
    /\ \A g \in items : Undeleted(Line(g))
    /\ \A u \in Users : Undeleted(places[u])

\* At the instant an item or a place begins to point to a master, the master
\* and those above it are published: an archiving is not overtaken.
NewReferencesArePublished ==
    [][/\ \A g \in items' \ items : Published(Line(g))
       /\ \A u \in Users : Published(places'[u] \ places[u])]_vars

\* A screen whose version still fits shows what is stored, so what its user
\* saves replaces nothing unseen: a master, or the places of a user.
ScreensAreCurrent ==
    \A r \in Requests :
        /\ req[r].pc = "screen" /\ masters[req[r].master].version = req[r].shown.version
              => masters[req[r].master] = req[r].shown
        /\ req[r].pc = "placesScreen" /\ alive[req[r].user] /\ placeVersion[req[r].user] = req[r].version
              => places[req[r].user] = req[r].shown

\* Additions, forms of places and changes of masters never wait
\* for each other in a circle.
NoCircleOfWaits ==
    \A circle \in (SUBSET Requests) \ {{}} : \E r \in circle : Blockers(r) \cap circle = {}

=============================================================================
