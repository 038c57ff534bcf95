---------------------------- MODULE MastersProofs ----------------------------
(***************************************************************************)
(* Theorems about Masters, for any masters under each other, users,        *)
(* requests and bounds.                                                    *)
(***************************************************************************)
EXTENDS Masters, FiniteSetTheorems, TLAPS

-----------------------------------------------------------------------------
(* The invariant. *)

\* A master is made by one request at a time, and is not there before.
MakersMakeNew ==
    \A r \in Requests : req[r].pc = "create" =>
        /\ masters[req[r].master] = NoRow
        /\ \A q \in Requests : req[q].pc = "create" /\ req[q].master = req[r].master => q = r

\* A screen shows its row as it is, or a former version of it.
MasterScreensAgeWell ==
    \A r \in Requests : req[r].pc = "screen" =>
        LET row == masters[req[r].master]
        IN  /\ row # NoRow
            /\ req[r].shown.version <= row.version
            /\ req[r].shown.version = row.version => row = req[r].shown

\* What somebody is about to change is there.
WritersFindRows == \A r \in Requests : req[r].pc = "write" => masters[req[r].master] # NoRow

PlacesScreensAgeWell ==
    \A r \in Requests : req[r].pc = "placesScreen" =>
        LET u == req[r].user
        IN  /\ req[r].version <= placeVersion[u]
            /\ alive[u] /\ req[r].version = placeVersion[u] => places[u] = req[r].shown

Inv ==
    /\ TypeOK
    /\ ReferencesStand
    /\ MakersMakeNew
    /\ MasterScreensAgeWell
    /\ WritersFindRows
    /\ PlacesScreensAgeWell

-----------------------------------------------------------------------------
(* Rows. *)

LEMMA LinesAreMasters ==
    ASSUME NEW m \in Masters
    PROVE  m \in Line(m) /\ Line(m) \subseteq Masters
<1>1. \A n \in Masters : Parent[n] # NoParent => Parent[n] \in Masters
  BY ParentsComeFirst
<1>2. CASE Parent[m] = NoParent
  BY <1>2 DEF Line, Above
<1>3. CASE Parent[m] # NoParent /\ Parent[Parent[m]] = NoParent
  BY <1>1, <1>3, Zenon DEF Line, Above
<1>4. CASE Parent[m] # NoParent /\ Parent[Parent[m]] # NoParent
  <2>1. Parent[m] \in Masters /\ Parent[Parent[m]] \in Masters
    BY <1>1, <1>4
  <2>2. Line(m) = {m} \cup ({Parent[m]} \cup {Parent[Parent[m]]})
    BY <1>4 DEF Line, Above
  <2>3. QED  BY <2>1, <2>2
<1>5. QED  BY <1>2, <1>3, <1>4

LEMMA ChangedRowsAreRows ==
    ASSUME NEW row \in MasterRows, NEW op \in Operations, NEW name \in Names, NEW version,
           Changeable(row, op, version)
    PROVE  /\ Change(row, op, name) \in MasterRows
           /\ Change(row, op, name).version = row.version + 1
           /\ op # "delete" => Change(row, op, name).status \in {"published", "archived"}
<1> DEFINE next == row.version + 1
<1>0. next \in Nat
  BY DEF MasterRows
<1> HIDE DEF next
<1>1. row.status \in {"published", "archived"} \/ op \notin {"update", "delete"}
  BY DEF Changeable
<1>2. CASE op = "update"
  <2>1. Change(row, op, name) = [row EXCEPT !.name = name, !.version = next]
    BY <1>2 DEF Change, next
  <2>2. [row EXCEPT !.name = name, !.version = next] \in MasterRows
    BY <1>0 DEF MasterRows
  <2>3. [row EXCEPT !.name = name, !.version = next].version = next
    BY DEF MasterRows
  <2>4. [row EXCEPT !.name = name, !.version = next].status = row.status
    BY DEF MasterRows
  <2>5. QED  BY <1>1, <1>2, <2>1, <2>2, <2>3, <2>4 DEF next
<1>3. CASE op = "archive"
  <2>1. Change(row, op, name) = [row EXCEPT !.status = "archived", !.version = next]
    BY <1>3 DEF Change, next
  <2>2. [row EXCEPT !.status = "archived", !.version = next] \in MasterRows
    BY <1>0 DEF MasterRows
  <2>3. [row EXCEPT !.status = "archived", !.version = next].version = next
    BY DEF MasterRows
  <2>4. [row EXCEPT !.status = "archived", !.version = next].status = "archived"
    BY DEF MasterRows
  <2>5. QED  BY <1>1, <1>3, <2>1, <2>2, <2>3, <2>4 DEF next
<1>4. CASE op = "unarchive"
  <2>1. Change(row, op, name) = [row EXCEPT !.status = "published", !.version = next]
    BY <1>4 DEF Change, next
  <2>2. [row EXCEPT !.status = "published", !.version = next] \in MasterRows
    BY <1>0 DEF MasterRows
  <2>3. [row EXCEPT !.status = "published", !.version = next].version = next
    BY DEF MasterRows
  <2>4. [row EXCEPT !.status = "published", !.version = next].status = "published"
    BY DEF MasterRows
  <2>5. QED  BY <1>1, <1>4, <2>1, <2>2, <2>3, <2>4 DEF next
<1>5. CASE op = "delete"
  <2>1. Change(row, op, name) = [row EXCEPT !.status = "deleted", !.version = next]
    BY <1>5 DEF Change, next
  <2>2. [row EXCEPT !.status = "deleted", !.version = next] \in MasterRows
    BY <1>0 DEF MasterRows
  <2>3. [row EXCEPT !.status = "deleted", !.version = next].version = next
    BY DEF MasterRows
  <2>4. [row EXCEPT !.status = "deleted", !.version = next].status = "deleted"
    BY DEF MasterRows
  <2>5. QED  BY <1>1, <1>5, <2>1, <2>2, <2>3, <2>4 DEF next
<1>6. QED  BY <1>2, <1>3, <1>4, <1>5 DEF Operations

\* The rows of masters that are there stay, and grow in version.
LEMMA RowsThatStandStay ==
    ASSUME TypeOK, ReferencesStand,
           masters' \in [Masters -> MasterRows \cup {NoRow}],
           \A m \in Masters : masters'[m] # masters[m] =>
               masters'[m] # NoRow /\ (masters'[m].status = "deleted" => Unreferenced(m)),
           UNCHANGED <<items, places>>
    PROVE  ReferencesStand'
<1>1. ASSUME NEW m \in Masters, masters[m] # NoRow, masters[m].status \in {"published", "archived"},
             ~Unreferenced(m)
      PROVE  masters'[m] # NoRow /\ masters'[m].status \in {"published", "archived"}
  BY <1>1 DEF TypeOK, MasterRows
<1>2. ASSUME NEW g \in items, NEW m \in Line(g)
      PROVE  masters'[m] # NoRow /\ masters'[m].status \in {"published", "archived"}
  <2>1. m \in Masters /\ ~Unreferenced(m)
    BY <1>2, LinesAreMasters, GoodsAndStations DEF TypeOK, Unreferenced, Referenced
  <2>2. QED  BY <1>1, <1>2, <2>1 DEF ReferencesStand, Undeleted, In
<1>3. ASSUME NEW u \in Users, NEW m \in places[u]
      PROVE  masters'[m] # NoRow /\ masters'[m].status \in {"published", "archived"}
  <2>1. m \in Masters /\ ~Unreferenced(m)
    BY <1>3, GoodsAndStations DEF TypeOK, Unreferenced, Referenced
  <2>2. QED  BY <1>1, <1>3, <2>1 DEF ReferencesStand, Undeleted, In
<1>4. QED  BY <1>2, <1>3 DEF ReferencesStand, Undeleted, In

-----------------------------------------------------------------------------
(* How a request moves. *)

\* A step of a request that changes no row.
LEMMA MovesKeepInv ==
    ASSUME Inv, NEW r \in Requests, NEW state \in RequestStates,
           req' = [req EXCEPT ![r] = state], UNCHANGED database,
           masterLock' \in [Masters -> Requests \cup {NoRequest}],
           userLock' \in [Users -> Requests \cup {NoRequest}],
           state.pc = "create" =>
               /\ masters[state.master] = NoRow
               /\ \A q \in Requests : req[q].pc = "create" => req[q].master # state.master,
           state.pc = "screen" =>
               masters[state.master] # NoRow /\ state.shown = masters[state.master],
           state.pc = "write" => masters[state.master] # NoRow,
           state.pc = "placesScreen" =>
               state.version = placeVersion[state.user] /\ state.shown = places[state.user]
    PROVE  Inv'
<1>1. \A q \in Requests : req'[q] = IF q = r THEN state ELSE req[q]
  BY DEF Inv, TypeOK
<1>2. TypeOK'
  BY DEF Inv, TypeOK, database
<1>3. ReferencesStand'
  BY DEF Inv, ReferencesStand, Undeleted, In, database
<1>4. MakersMakeNew'
  BY <1>1 DEF Inv, MakersMakeNew, database
<1>5. MasterScreensAgeWell'
  <2> SUFFICES ASSUME NEW q \in Requests, req'[q].pc = "screen"
               PROVE  LET row == masters[req'[q].master]
                      IN  /\ row # NoRow
                          /\ req'[q].shown.version <= row.version
                          /\ req'[q].shown.version = row.version => row = req'[q].shown
    BY DEF MasterScreensAgeWell, database
  <2>1. CASE q # r
    BY <2>1, <1>1 DEF Inv, MasterScreensAgeWell
  <2>2. CASE q = r
    <3>1. state.master \in Masters
      BY <2>2, <1>1 DEF RequestStates, Idle
    <3>2. masters[state.master].version \in Nat
      BY <3>1, <2>2, <1>1 DEF Inv, TypeOK, MasterRows
    <3>3. QED  BY <2>2, <3>2, <1>1
  <2>3. QED  BY <2>1, <2>2
<1>6. PlacesScreensAgeWell'
  <2> SUFFICES ASSUME NEW q \in Requests, req'[q].pc = "placesScreen"
               PROVE  LET u == req'[q].user
                      IN  /\ req'[q].version <= placeVersion[u]
                          /\ alive[u] /\ req'[q].version = placeVersion[u] => places[u] = req'[q].shown
    BY DEF PlacesScreensAgeWell, database
  <2>1. CASE q # r
    BY <2>1, <1>1 DEF Inv, PlacesScreensAgeWell
  <2>2. CASE q = r
    <3>1. state.user \in Users
      BY <2>2, <1>1 DEF RequestStates, Idle
    <3>2. placeVersion[state.user] \in Nat
      BY <3>1 DEF Inv, TypeOK
    <3>3. QED  BY <2>2, <3>2, <1>1
  <2>3. QED  BY <2>1, <2>2
<1>7. WritersFindRows'
  BY <1>1 DEF Inv, WritersFindRows, database
<1>8. QED  BY <1>2, <1>3, <1>4, <1>5, <1>6, <1>7 DEF Inv

LEMMA ReturnFreesLocks ==
    ASSUME TypeOK, NEW r \in Requests, Return(r)
    PROVE  /\ masterLock' \in [Masters -> Requests \cup {NoRequest}]
           /\ userLock' \in [Users -> Requests \cup {NoRequest}]
           /\ req' \in [Requests -> RequestStates]
           /\ \A q \in Requests : req'[q] = IF q = r THEN Idle ELSE req[q]
BY DEF TypeOK, Return, RequestStates

LEMMA RefuseKeepsInv ==
    ASSUME Inv, NEW r \in Requests, Refuse(r)
    PROVE  Inv'
<1>1. Idle \in RequestStates /\ Idle.pc = "idle"
  BY DEF Idle, RequestStates
<1>2. QED  BY <1>1, ReturnFreesLocks, MovesKeepInv DEF Inv, Refuse, Return

LEMMA BeginKeepsInv ==
    ASSUME Inv, NEW r \in Requests, BeginRequest(r)
    PROVE  Inv'
<1> USE DEF database
<1>1. ASSUME NEW m \in Masters, OpenScreen(r, m)
      PROVE  Inv'
  <2>1. masters[m] # NoRow /\ masters[m] \in MasterRows
    BY <1>1, LinesAreMasters DEF Inv, TypeOK, OpenScreen, Undeleted, In
  <2>2. [pc |-> "screen", master |-> m, shown |-> masters[m]] \in RequestStates
    BY <2>1 DEF RequestStates
  <2>3. QED  BY <1>1, <2>1, <2>2, MovesKeepInv DEF OpenScreen, Begin, Inv, TypeOK
<1>2. ASSUME NEW m \in Masters, NEW name \in Names, CreateMasterBegin(r, m, name)
      PROVE  Inv'
  <2>1. [pc |-> "create", master |-> m, name |-> name] \in RequestStates
    BY DEF RequestStates
  <2>2. QED  BY <1>2, <2>1, MovesKeepInv DEF CreateMasterBegin, Begin, Inv, TypeOK
<1>3. ASSUME NEW g \in Goods, CreateItemBegin(r, g)
      PROVE  Inv'
  <2>1. [pc |-> "add", goods |-> g, todo |-> Line(g)] \in RequestStates
    BY LinesAreMasters, GoodsAndStations DEF RequestStates
  <2>2. QED  BY <1>3, <2>1, MovesKeepInv DEF CreateItemBegin, Begin, Inv, TypeOK
<1>4. ASSUME NEW u \in Users, OpenPlaces(r, u)
      PROVE  Inv'
  <2>1. [pc |-> "placesScreen", user |-> u, version |-> placeVersion[u], shown |-> places[u]] \in RequestStates
    BY DEF RequestStates, Inv, TypeOK
  <2>2. QED  BY <1>4, <2>1, MovesKeepInv DEF OpenPlaces, Begin, Inv, TypeOK
<1>5. QED  BY <1>1, <1>2, <1>3, <1>4 DEF BeginRequest

-----------------------------------------------------------------------------
(* The forms and the statements. *)

LEMMA SendScreenKeepsInv ==
    ASSUME Inv, NEW r \in Requests, NEW op \in Operations, NEW name \in Names,
           req[r].pc = "screen", SendScreen(r, op, name)
    PROVE  Inv'
<1> DEFINE state == [pc |-> "write", op |-> op, master |-> req[r].master,
                     version |-> req[r].shown.version, name |-> name]
<1>1. req[r].master \in Masters /\ req[r].shown.version \in Nat
  BY DEF Inv, TypeOK, RequestStates, Idle, MasterRows
<1>2. state \in RequestStates
  BY <1>1 DEF RequestStates
<1>3. CASE req' = [req EXCEPT ![r] = state] /\ UNCHANGED <<database, masterLock, userLock>>
  BY <1>2, <1>3, MovesKeepInv DEF Inv, TypeOK, MasterScreensAgeWell
<1>4. QED  BY <1>3, RefuseKeepsInv DEF SendScreen

LEMMA SendPlacesKeepsInv ==
    ASSUME Inv, NEW r \in Requests, NEW chosen \in SUBSET Stations, SendPlaces(r, chosen)
    PROVE  Inv'
<1> DEFINE state == [pc |-> "placesLock", user |-> req[r].user, version |-> req[r].version, chosen |-> chosen]
<1>1. req[r].user \in Users /\ req[r].version \in Nat
  BY DEF Inv, TypeOK, RequestStates, Idle, SendPlaces, At
<1>2. state \in RequestStates
  BY <1>1 DEF RequestStates
<1>3. QED  BY <1>2, MovesKeepInv DEF SendPlaces, Inv, TypeOK

LEMMA LockNextKeepsInv ==
    ASSUME Inv, NEW r \in Requests, NEW pc \in {"add", "places"}, LockNext(r, pc)
    PROVE  Inv'
<1>1. PICK m \in NextInOrder(req[r].todo) :
          /\ masterLock' = [masterLock EXCEPT ![m] = r]
          /\ req' = [req EXCEPT ![r] = [req[r] EXCEPT !.todo = req[r].todo \ {m}]]
  BY DEF LockNext
<1> DEFINE todo == req[r].todo \ {m}
           state == [req[r] EXCEPT !.todo = todo]
<1>2. req[r] \in [pc: {"add"}, goods: Goods, todo: SUBSET Masters]
                  \cup [pc: {"places"}, user: Users, chosen: SUBSET Stations, todo: SUBSET Stations]
  BY DEF Inv, TypeOK, RequestStates, Idle, LockNext
<1>3. state \in [pc: {"add"}, goods: Goods, todo: SUBSET Masters]
               \cup [pc: {"places"}, user: Users, chosen: SUBSET Stations, todo: SUBSET Stations]
  BY <1>2
<1>4. state \in RequestStates /\ state.pc \in {"add", "places"}
  BY <1>3 DEF RequestStates
<1>5. masterLock' \in [Masters -> Requests \cup {NoRequest}]
  BY <1>1 DEF Inv, TypeOK
<1> HIDE DEF state
<1>6. QED  BY <1>1, <1>4, <1>5, MovesKeepInv DEF LockNext, Inv, TypeOK, state

LEMMA UpdatePlacesLockKeepsInv ==
    ASSUME Inv, NEW r \in Requests, UpdatePlacesLock(r)
    PROVE  Inv'
<1> DEFINE s == req[r]
           state == [pc |-> "places", user |-> s.user, chosen |-> s.chosen, todo |-> s.chosen]
<1>1. s.user \in Users /\ s.chosen \in SUBSET Stations
  BY DEF Inv, TypeOK, RequestStates, Idle, UpdatePlacesLock, At
<1>2. state \in RequestStates
  BY <1>1 DEF RequestStates
<1>3. CASE /\ userLock' = [userLock EXCEPT ![s.user] = r]
           /\ req' = [req EXCEPT ![r] = state]
           /\ UNCHANGED <<database, masterLock>>
  BY <1>1, <1>2, <1>3, MovesKeepInv DEF Inv, TypeOK
<1>4. QED  BY <1>3, RefuseKeepsInv DEF UpdatePlacesLock

\* A row that is made or changed: what lies on screens is older from then on.
LEMMA WrittenRowsKeepInv ==
    ASSUME Inv, NEW r \in Requests, NEW m \in Masters, NEW row \in MasterRows,
           req[r].pc \notin {"screen"},
           masters' = [masters EXCEPT ![m] = row],
           masters[m] # NoRow => row.version = masters[m].version + 1,
           masters[m] = NoRow => req[r].pc = "create" /\ req[r].master = m,
           row.status = "deleted" => Unreferenced(m),
           Return(r), UNCHANGED <<items, alive, places, placeVersion>>
    PROVE  Inv'
<1>1. /\ masters' \in [Masters -> MasterRows \cup {NoRow}]
      /\ \A n \in Masters : masters'[n] = IF n = m THEN row ELSE masters[n]
  BY DEF Inv, TypeOK
<1>2. /\ masterLock' \in [Masters -> Requests \cup {NoRequest}]
      /\ userLock' \in [Users -> Requests \cup {NoRequest}]
      /\ req' \in [Requests -> RequestStates]
      /\ \A q \in Requests : req'[q] = IF q = r THEN Idle ELSE req[q]
  BY ReturnFreesLocks DEF Inv
<1>3. TypeOK'
  BY <1>1, <1>2 DEF Inv, TypeOK
<1>4. ReferencesStand'
  BY <1>1, NoRowIsNoMaster, RowsThatStandStay DEF Inv
<1>5. MakersMakeNew'
  <2> SUFFICES ASSUME NEW q \in Requests, q # r, req[q].pc = "create"
               PROVE  masters'[req[q].master] = NoRow
    BY <1>2 DEF Inv, MakersMakeNew, Idle
  <2>1. req[q].master \in Masters
    BY DEF Inv, TypeOK, RequestStates, Idle
  <2>2. masters[req[q].master] = NoRow
    BY DEF Inv, MakersMakeNew
  <2>3. req[q].master # m
    BY <2>2 DEF Inv, MakersMakeNew
  <2>4. QED  BY <2>1, <2>2, <2>3, <1>1
<1>6. MasterScreensAgeWell'
  <2> SUFFICES ASSUME NEW q \in Requests, q # r, req[q].pc = "screen"
               PROVE  LET new == masters'[req[q].master]
                      IN  /\ new # NoRow
                          /\ req[q].shown.version <= new.version
                          /\ req[q].shown.version = new.version => new = req[q].shown
    BY <1>2 DEF MasterScreensAgeWell, Idle
  <2>1. req[q].master \in Masters /\ req[q].shown.version \in Nat
    BY DEF Inv, TypeOK, RequestStates, Idle, MasterRows
  <2>2. /\ masters[req[q].master] # NoRow
        /\ req[q].shown.version <= masters[req[q].master].version
        /\ req[q].shown.version = masters[req[q].master].version => masters[req[q].master] = req[q].shown
    BY DEF Inv, MasterScreensAgeWell
  <2>3. masters[req[q].master].version \in Nat
    BY <2>1, <2>2 DEF Inv, TypeOK, MasterRows
  <2>4. QED  BY <2>1, <2>2, <2>3, <1>1, NoRowIsNoMaster
<1>7. PlacesScreensAgeWell'
  BY <1>2 DEF Inv, PlacesScreensAgeWell, Idle
<1>8. WritersFindRows'
  <2> SUFFICES ASSUME NEW q \in Requests, q # r, req[q].pc = "write"
               PROVE  masters'[req[q].master] # NoRow
    BY <1>2 DEF WritersFindRows, Idle
  <2>1. req[q].master \in Masters
    BY DEF Inv, TypeOK, RequestStates, Idle
  <2>2. QED  BY <2>1, <1>1, NoRowIsNoMaster DEF Inv, WritersFindRows
<1>9. QED  BY <1>3, <1>4, <1>5, <1>6, <1>7, <1>8 DEF Inv

LEMMA CreateMasterKeepsInv ==
    ASSUME Inv, NEW r \in Requests, CreateMaster(r)
    PROVE  Inv'
<1> DEFINE m == req[r].master
           row == NewMaster(req[r].name)
<1>1. req[r].pc = "create" /\ m \in Masters /\ req[r].name \in Names
  BY DEF Inv, TypeOK, RequestStates, Idle, CreateMaster, At
<1>2. row \in MasterRows /\ row.status = "published"
  BY <1>1 DEF NewMaster, MasterRows
<1>3. masters[m] = NoRow
  BY <1>1 DEF Inv, MakersMakeNew
<1>4. masters' = [masters EXCEPT ![m] = row]
  BY DEF CreateMaster
<1> HIDE DEF row
<1>5. QED  BY <1>1, <1>2, <1>3, <1>4, WrittenRowsKeepInv DEF CreateMaster

LEMMA WriteMasterKeepsInv ==
    ASSUME Inv, NEW r \in Requests, WriteMaster(r)
    PROVE  Inv'
<1> DEFINE s == req[r]
           row == masters[s.master]
           new == Change(row, s.op, s.name)
<1>1. CASE ~(Changeable(row, s.op, s.version) /\ (s.op = "delete" => Undeleted(Above(s.master)) /\ Unreferenced(s.master)))
  BY <1>1, RefuseKeepsInv DEF WriteMaster
<1>2. CASE Changeable(row, s.op, s.version) /\ (s.op = "delete" => Undeleted(Above(s.master)) /\ Unreferenced(s.master))
  <2>1. s.pc = "write" /\ s.master \in Masters /\ s.op \in Operations /\ s.name \in Names
    BY DEF Inv, TypeOK, RequestStates, Idle, WriteMaster, At
  <2>2. masters' = [masters EXCEPT ![s.master] = new] /\ Return(r) /\ UNCHANGED <<items, alive, places, placeVersion>>
    BY <1>2 DEF WriteMaster
  <2>3. row # NoRow
    BY <2>1 DEF Inv, WritersFindRows
  <2>4. row \in MasterRows
    BY <2>1, <2>3 DEF Inv, TypeOK
  <2>5. new \in MasterRows /\ new.version = row.version + 1 /\ (new.status = "deleted" => s.op = "delete")
    BY <1>2, <2>1, <2>4, ChangedRowsAreRows
  <2> HIDE DEF new
  <2>6. QED  BY <1>2, <2>1, <2>2, <2>3, <2>5, WrittenRowsKeepInv
<1>3. QED  BY <1>1, <1>2

LEMMA CreateItemKeepsInv ==
    ASSUME Inv, NEW r \in Requests, CreateItem(r)
    PROVE  Inv'
<1> DEFINE g == req[r].goods
<1>1. g \in Goods
  BY DEF Inv, TypeOK, RequestStates, Idle, CreateItem, At
<1>2. CASE ~PublishedWhenLocked(Line(g))
  BY <1>2, RefuseKeepsInv DEF CreateItem
<1>3. CASE PublishedWhenLocked(Line(g))
  <2>1. /\ items' = items \cup {g}
        /\ Return(r)
        /\ UNCHANGED <<masters, alive, places, placeVersion>>
    BY <1>3 DEF CreateItem
  <2>2. /\ masterLock' \in [Masters -> Requests \cup {NoRequest}]
        /\ userLock' \in [Users -> Requests \cup {NoRequest}]
        /\ req' \in [Requests -> RequestStates]
        /\ \A q \in Requests : req'[q] = IF q = r THEN Idle ELSE req[q]
    BY <2>1, ReturnFreesLocks DEF Inv
  <2>3. TypeOK'
    BY <1>1, <2>1, <2>2 DEF Inv, TypeOK
  <2>4. ReferencesStand'
    <3>1. Undeleted(Line(g))
      BY <1>3 DEF PublishedWhenLocked, Published, Undeleted, In
    <3>2. QED  BY <2>1, <3>1 DEF Inv, ReferencesStand, Undeleted, In
  <2>5. MakersMakeNew' /\ MasterScreensAgeWell' /\ WritersFindRows' /\ PlacesScreensAgeWell'
    BY <2>1, <2>2 DEF Inv, Idle, MakersMakeNew, MasterScreensAgeWell, WritersFindRows, PlacesScreensAgeWell
  <2>6. QED  BY <2>3, <2>4, <2>5 DEF Inv
<1>4. QED  BY <1>2, <1>3

LEMMA UpdatePlacesKeepsInv ==
    ASSUME Inv, NEW r \in Requests, UpdatePlaces(r)
    PROVE  Inv'
<1> DEFINE u == req[r].user
           chosen == req[r].chosen
<1>1. u \in Users /\ chosen \in SUBSET Stations
  BY DEF Inv, TypeOK, RequestStates, Idle, UpdatePlaces, At
<1>2. CASE ~\A station \in chosen : Selectable(station, u)
  BY <1>2, RefuseKeepsInv DEF UpdatePlaces
<1>3. CASE \A station \in chosen : Selectable(station, u)
  <2>1. /\ places' = [places EXCEPT ![u] = chosen]
        /\ placeVersion' = [placeVersion EXCEPT ![u] = @ + 1]
        /\ Return(r)
        /\ UNCHANGED <<masters, items, alive>>
    BY <1>3 DEF UpdatePlaces
  <2>2. /\ masterLock' \in [Masters -> Requests \cup {NoRequest}]
        /\ userLock' \in [Users -> Requests \cup {NoRequest}]
        /\ req' \in [Requests -> RequestStates]
        /\ \A q \in Requests : req'[q] = IF q = r THEN Idle ELSE req[q]
    BY <2>1, ReturnFreesLocks DEF Inv
  <2>3. /\ \A v \in Users : places'[v] = IF v = u THEN chosen ELSE places[v]
        /\ \A v \in Users : placeVersion'[v] = IF v = u THEN placeVersion[v] + 1 ELSE placeVersion[v]
        /\ placeVersion' \in [Users -> Nat] /\ places' \in [Users -> SUBSET Stations]
    BY <1>1, <2>1 DEF Inv, TypeOK
  <2>4. TypeOK'
    BY <2>1, <2>2, <2>3 DEF Inv, TypeOK
  <2>5. ReferencesStand'
    <3>1. Undeleted(chosen)
      BY <1>3 DEF Selectable, Published, Undeleted, In
    <3>2. QED  BY <2>1, <2>3, <3>1 DEF Inv, ReferencesStand, Undeleted, In
  <2>6. MakersMakeNew' /\ MasterScreensAgeWell' /\ WritersFindRows'
    BY <2>1, <2>2 DEF Inv, Idle, MakersMakeNew, MasterScreensAgeWell, WritersFindRows
  <2>7. PlacesScreensAgeWell'
    <3> SUFFICES ASSUME NEW q \in Requests, q # r, req[q].pc = "placesScreen"
                 PROVE  /\ req[q].version <= placeVersion'[req[q].user]
                        /\ alive[req[q].user] /\ req[q].version = placeVersion'[req[q].user] =>
                               places'[req[q].user] = req[q].shown
      BY <2>1, <2>2 DEF Idle, PlacesScreensAgeWell
    <3>1. req[q].user \in Users /\ req[q].version \in Nat
      BY DEF Inv, TypeOK, RequestStates, Idle
    <3>2. placeVersion[req[q].user] \in Nat
      BY <3>1 DEF Inv, TypeOK
    <3>3. QED  BY <2>3, <3>1, <3>2 DEF Inv, PlacesScreensAgeWell
  <2>8. QED  BY <2>4, <2>5, <2>6, <2>7 DEF Inv
<1>4. QED  BY <1>2, <1>3

LEMMA DeletedUsersAreGone ==
    ASSUME TypeOK, NEW u \in Users, DeleteAccount(u)
    PROVE  ~alive'[u] /\ \A v \in Users : v # u => alive'[v] = alive[v]
<1>1. alive' = [alive EXCEPT ![u] = FALSE] /\ alive \in [Users -> BOOLEAN]
  BY DEF TypeOK, DeleteAccount
<1>2. QED  BY <1>1, Zenon

LEMMA DeleteAccountKeepsInv ==
    ASSUME Inv, NEW u \in Users, DeleteAccount(u)
    PROVE  Inv'
<1>0. ~alive'[u] /\ \A v \in Users : v # u => alive'[v] = alive[v]
  BY DeletedUsersAreGone DEF Inv
<1>1. TypeOK'
  BY DEF Inv, TypeOK, DeleteAccount
<1>2. \A v \in Users : places'[v] = IF v = u THEN {} ELSE places[v]
  BY DEF Inv, TypeOK, DeleteAccount
<1>3. ReferencesStand'
  <2>1. UNCHANGED <<masters, items>>
    BY DEF DeleteAccount
  <2>2. \A g \in items : Undeleted(Line(g))'
    BY <2>1 DEF Inv, ReferencesStand, Undeleted, In
  <2>3. \A v \in Users : Undeleted(places[v])'
    BY <1>2, <2>1 DEF Inv, ReferencesStand, Undeleted, In
  <2>4. QED  BY <2>1, <2>2, <2>3 DEF ReferencesStand
<1>4. MakersMakeNew' /\ MasterScreensAgeWell' /\ WritersFindRows'
  BY DEF Inv, MakersMakeNew, MasterScreensAgeWell, WritersFindRows, DeleteAccount
<1>5. \A q \in Requests : req[q].pc = "placesScreen" => req[q].user \in Users
  BY DEF Inv, TypeOK, RequestStates, Idle
<1>6. PlacesScreensAgeWell'
  <2> SUFFICES ASSUME NEW q \in Requests, req[q].pc = "placesScreen"
               PROVE  /\ req[q].version <= placeVersion[req[q].user]
                      /\ alive'[req[q].user] /\ req[q].version = placeVersion[req[q].user] =>
                             places'[req[q].user] = req[q].shown
    BY DEF PlacesScreensAgeWell, DeleteAccount
  <2>1. CASE req[q].user = u
    BY <2>1, <1>0 DEF Inv, PlacesScreensAgeWell
  <2>2. CASE req[q].user # u
    <3>1. alive'[req[q].user] = alive[req[q].user] /\ places'[req[q].user] = places[req[q].user]
      BY <2>2, <1>0, <1>2, <1>5
    <3>2. QED  BY <3>1 DEF Inv, PlacesScreensAgeWell
  <2>3. QED  BY <2>1, <2>2
<1>7. QED  BY <1>1, <1>3, <1>4, <1>6 DEF Inv

-----------------------------------------------------------------------------
(* The theorems. *)

LEMMA InitKeepsInv == Init => Inv
<1> SUFFICES ASSUME Init PROVE Inv
  OBVIOUS
<1>1. \A name \in Names : NewMaster(name) \in MasterRows
  BY DEF NewMaster, MasterRows
<1>2. TypeOK
  BY <1>1 DEF Init, TypeOK, RequestStates
<1>3. ReferencesStand
  BY DEF Init, ReferencesStand, Undeleted, In
<1>4. MakersMakeNew /\ MasterScreensAgeWell /\ WritersFindRows /\ PlacesScreensAgeWell
  BY DEF Init, Idle, MakersMakeNew, MasterScreensAgeWell, WritersFindRows, PlacesScreensAgeWell
<1>5. QED  BY <1>2, <1>3, <1>4 DEF Inv

LEMMA NextKeepsInv == Inv /\ [Next]_vars => Inv'
<1> SUFFICES ASSUME Inv, [Next]_vars PROVE Inv'
  OBVIOUS
<1>1. ASSUME NEW r \in Requests, BeginRequest(r)
      PROVE  Inv'
  BY <1>1, BeginKeepsInv
<1>2. ASSUME NEW r \in Requests, SendForm(r)
      PROVE  Inv'
  <2>1. ASSUME NEW name \in Names, req[r].pc = "screen", SendScreen(r, "update", name)
        PROVE  Inv'
    BY <2>1, SendScreenKeepsInv DEF Operations
  <2>2. ASSUME NEW op \in Operations, req[r].pc = "screen", SendScreen(r, op, req[r].shown.name)
        PROVE  Inv'
    <3>1. req[r].shown.name \in Names
      BY <2>2 DEF Inv, TypeOK, RequestStates, Idle, MasterRows
    <3>2. QED  BY <2>2, <3>1, SendScreenKeepsInv
  <2>3. QED  BY <1>2, <2>1, <2>2, SendPlacesKeepsInv DEF SendForm
<1>3. ASSUME NEW r \in Requests, Continue(r)
      PROVE  Inv'
  BY <1>3, CreateMasterKeepsInv, WriteMasterKeepsInv, LockNextKeepsInv, CreateItemKeepsInv,
     UpdatePlacesLockKeepsInv, UpdatePlacesKeepsInv DEF Continue
<1>4. ASSUME NEW r \in Requests, Abort(r)
      PROVE  Inv'
  BY <1>4, RefuseKeepsInv DEF Abort
<1>5. ASSUME NEW u \in Users, DeleteAccount(u)
      PROVE  Inv'
  BY <1>5, DeleteAccountKeepsInv
<1>6. CASE UNCHANGED vars
  BY <1>6 DEF vars, database, Inv, TypeOK, ReferencesStand, Undeleted, In,
              MakersMakeNew, MasterScreensAgeWell, WritersFindRows, PlacesScreensAgeWell
<1>7. QED  BY <1>1, <1>2, <1>3, <1>4, <1>5, <1>6 DEF Next

THEOREM InvHolds == Spec => []Inv
BY InitKeepsInv, NextKeepsInv, PTL DEF Spec

\* The types of Masters hold for every instance.
THEOREM TypesHold == Spec => []TypeOK
BY InvHolds, PTL DEF Inv

\* What a row of items or of user_stations points to, and what lies above it,
\* is never deleted.
THEOREM ReferencesAlwaysStand == Spec => []ReferencesStand
BY InvHolds, PTL DEF Inv

\* The versions that UPDATE compares tell whether a screen is current.
THEOREM VersionsTellTheTruth == Spec => []ScreensAreCurrent
<1>1. Inv => ScreensAreCurrent
  BY DEF Inv, MasterScreensAgeWell, PlacesScreensAgeWell, ScreensAreCurrent
<1>2. QED  BY <1>1, InvHolds, PTL

\* CreateItem and UpdatePlaces begin to point to published rows only.
THEOREM OnlyPublishedRowsAreChosen == Spec => NewReferencesArePublished
<1> DEFINE A == /\ \A g \in items' \ items : Published(Line(g))
                /\ \A u \in Users : Published(places'[u] \ places[u])
<1>1. Inv /\ [Next]_vars => [A]_vars
  <2> SUFFICES ASSUME Inv, Next PROVE A
    OBVIOUS
  <2>1. CASE UNCHANGED <<items, places>>
    BY <2>1 DEF Published, In
  <2>2. ASSUME NEW r \in Requests, CreateItem(r)
        PROVE  A
    <3>1. CASE items' = items \cup {req[r].goods} /\ Published(Line(req[r].goods)) /\ UNCHANGED places
      BY <3>1 DEF Published, In
    <3>2. QED  BY <2>1, <2>2, <3>1 DEF CreateItem, PublishedWhenLocked, Refuse, database
  <2>3. ASSUME NEW r \in Requests, UpdatePlaces(r)
        PROVE  A
    <3>1. CASE /\ \A station \in req[r].chosen : Selectable(station, req[r].user)
               /\ places' = [places EXCEPT ![req[r].user] = req[r].chosen] /\ UNCHANGED items
      BY <3>1 DEF Inv, TypeOK, Selectable, Published, In
    <3>2. QED  BY <2>1, <2>3, <3>1 DEF UpdatePlaces, Refuse, database
  <2>4. ASSUME NEW u \in Users, DeleteAccount(u)
        PROVE  A
    BY <2>4 DEF Inv, TypeOK, DeleteAccount, Published, In
  <2>5. ASSUME NEW r \in Requests,
               \/ BeginRequest(r) \/ SendForm(r) \/ Abort(r)
               \/ CreateMaster(r) \/ WriteMaster(r)
               \/ LockNext(r, "add") \/ UpdatePlacesLock(r) \/ LockNext(r, "places")
        PROVE  UNCHANGED <<items, places>>
    BY <2>5 DEF BeginRequest, OpenScreen, CreateMasterBegin, CreateItemBegin, OpenPlaces, Begin,
                SendForm, SendScreen, SendPlaces, Abort, Refuse, Return, CreateMaster, WriteMaster,
                LockNext, UpdatePlacesLock, database
  <2>6. QED  BY <2>1, <2>2, <2>3, <2>4, <2>5 DEF Next, Continue
<1>2. QED  BY <1>1, InvHolds, PTL DEF Spec, NewReferencesArePublished

-----------------------------------------------------------------------------
(* Who waits for whom. *)

LockedRows == {m \in Masters : masterLock[m] # NoRequest}

\* Whoever holds rows of masters needs only rows further up.
LocksAscend ==
    \A r \in Requests, m \in Masters : masterLock[m] = r =>
        req[r].pc \in {"add", "places"} /\ \A n \in req[r].todo : m < n

UsersAreHeldForPlaces ==
    \A r \in Requests, u \in Users : userLock[u] = r => req[r].pc = "places"

WaitInv ==
    /\ LocksAscend
    /\ UsersAreHeldForPlaces
    /\ IsFiniteSet(LockedRows)

\* A finite set of numbers has a greatest one: the one that the fewest exceed.
LEMMA FiniteSetsHaveMaxima ==
    ASSUME NEW S \in SUBSET Nat, IsFiniteSet(S), S # {}
    PROVE  \E x \in S : \A y \in S : y <= x
<1> DEFINE Exceeding(x) == {y \in S : y > x}
           Counts == {Cardinality(Exceeding(x)) : x \in S}
<1>1. \A x \in S : IsFiniteSet(Exceeding(x)) /\ Cardinality(Exceeding(x)) \in Nat
  <2>1. \A x \in S : Exceeding(x) \in SUBSET S
    OBVIOUS
  <2>2. QED  BY <2>1, FS_Subset, FS_CardinalityType
<1>2. Counts \subseteq Nat /\ Counts # {}
  BY <1>1
<1>3. PICK n \in Counts : \A k \in Counts : ~(<<k, n>> \in OpToRel(<, Nat))
  <2> HIDE DEF Counts
  <2>1. QED  BY <1>2, NatLessThanWellFounded, WFMin
<1>4. PICK x \in S : n = Cardinality(Exceeding(x))
  BY <1>3
<1>5. ASSUME NEW y \in S, y > x
      PROVE  FALSE
  <2>1. Exceeding(y) \subseteq Exceeding(x) /\ y \in Exceeding(x) \ Exceeding(y)
    <3>1. \A z \in S : z > y => z > x
      BY <1>5
    <3>2. y \in S /\ y > x /\ ~(y > y)
      BY <1>5
    <3>3. QED  BY <3>1, <3>2
  <2>2. Cardinality(Exceeding(y)) <= n /\ Cardinality(Exceeding(y)) # n
    BY <1>1, <1>4, <2>1, FS_Subset
  <2>3. Cardinality(Exceeding(y)) < n
    BY <1>1, <1>4, <2>2
  <2>4. <<Cardinality(Exceeding(y)), n>> \in OpToRel(<, Nat)
    BY <1>1, <1>4, <2>3 DEF OpToRel
  <2>5. QED  BY <1>3, <2>4
<1>6. QED  BY <1>5

\* Who is in a circle and is waited for waits for a row of masters itself;
\* the holder of the highest such row would wait for a higher one.
LEMMA NobodyWaitsInCircles == TypeOK /\ WaitInv => NoCircleOfWaits
<1> SUFFICES ASSUME TypeOK, WaitInv, NEW circle \in SUBSET Requests, circle # {},
                    \A r \in circle : Blockers(r) \cap circle # {}
             PROVE  FALSE
  BY DEF NoCircleOfWaits
<1> DEFINE Held == {m \in Masters : masterLock[m] \in circle}
<1>1. ASSUME NEW r \in circle, req[r].pc # "placesLock"
      PROVE  \E m \in Needs(r) : masterLock[m] \in circle
  <2>1. Blockers(r) \cap circle # {}
    OBVIOUS
  <2>2. QED  BY <1>1, <2>1 DEF Blockers
<1>2. ASSUME NEW r \in circle
      PROVE  Needs(r) \subseteq Masters
  BY GoodsAndStations DEF TypeOK, RequestStates, Idle, Needs, NextInOrder
<1>3. Held # {}
  <2>1. PICK r \in circle : TRUE
    OBVIOUS
  <2>2. CASE req[r].pc # "placesLock"
    BY <1>1, <1>2, <2>2
  <2>3. CASE req[r].pc = "placesLock"
    <3>1. req[r].user \in Users
      BY <2>3 DEF TypeOK, RequestStates, Idle
    <3>2. PICK q \in circle : q = userLock[req[r].user]
      BY <2>3 DEF Blockers
    <3>3. req[q].pc = "places"
      BY <3>1, <3>2 DEF WaitInv, UsersAreHeldForPlaces
    <3>4. QED  BY <1>1, <1>2, <3>3
  <2>4. QED  BY <2>2, <2>3
<1>4. PICK m \in Held : \A n \in Held : n <= m
  <2>1. Held \in SUBSET LockedRows
    BY NoRequestIsNoRequest DEF LockedRows
  <2>2. IsFiniteSet(Held)
    BY <2>1, FS_Subset DEF WaitInv
  <2>3. Held \in SUBSET Nat
    BY MastersAreNumbered
  <2>4. QED  BY <1>3, <2>2, <2>3, FiniteSetsHaveMaxima
<1>5. PICK r \in circle : masterLock[m] = r
  OBVIOUS
<1>6. req[r].pc \in {"add", "places"} /\ \A n \in req[r].todo : m < n
  BY <1>5 DEF WaitInv, LocksAscend
<1>7. PICK n \in Needs(r) : masterLock[n] \in circle
  BY <1>1, <1>6
<1>8. n \in req[r].todo /\ n \in Held
  BY <1>2, <1>6, <1>7 DEF Needs, NextInOrder
<1>9. m \in Nat /\ n \in Nat /\ n <= m /\ m < n
  BY <1>4, <1>6, <1>8, MastersAreNumbered
<1>10. QED  BY <1>9

\* One who holds nothing moves, and takes nothing.
LEMMA MovesKeepWaitInv ==
    ASSUME TypeOK, WaitInv, NEW r \in Requests, NEW state,
           req[r].pc \notin {"add", "places"},
           req' = [req EXCEPT ![r] = state],
           UNCHANGED <<masterLock, userLock>>
    PROVE  WaitInv'
<1>1. \A q \in Requests : q # r => req'[q] = req[q]
  BY DEF TypeOK
<1>2. (\A m \in Masters : masterLock[m] # r) /\ (\A u \in Users : userLock[u] # r)
  BY DEF WaitInv, LocksAscend, UsersAreHeldForPlaces
<1>3. LocksAscend'
  BY <1>1, <1>2 DEF WaitInv, LocksAscend
<1>4. UsersAreHeldForPlaces'
  BY <1>1, <1>2 DEF WaitInv, UsersAreHeldForPlaces
<1>5. QED  BY <1>3, <1>4 DEF WaitInv, LockedRows

LEMMA ReturnKeepsWaitInv ==
    ASSUME TypeOK, WaitInv, NEW r \in Requests, Return(r)
    PROVE  WaitInv'
<1>1. \A q \in Requests : q # r => req'[q] = req[q]
  BY DEF TypeOK, Return
<1>2. \A m \in Masters, q \in Requests : masterLock'[m] = q => q # r /\ masterLock[m] = q
  BY NoRequestIsNoRequest DEF Return
<1>3. \A u \in Users, q \in Requests : userLock'[u] = q => q # r /\ userLock[u] = q
  BY NoRequestIsNoRequest DEF Return
<1>4. LocksAscend'
  BY <1>1, <1>2 DEF WaitInv, LocksAscend
<1>5. UsersAreHeldForPlaces'
  BY <1>1, <1>3 DEF WaitInv, UsersAreHeldForPlaces
<1>6. LockedRows' \in SUBSET LockedRows
  BY DEF LockedRows, Return
<1>7. QED  BY <1>4, <1>5, <1>6, FS_Subset DEF WaitInv

LEMMA LockNextKeepsWaitInv ==
    ASSUME TypeOK, WaitInv, NEW r \in Requests, NEW pc \in {"add", "places"}, LockNext(r, pc)
    PROVE  WaitInv'
<1>1. PICK m \in NextInOrder(req[r].todo) :
          /\ masterLock' = [masterLock EXCEPT ![m] = r]
          /\ req' = [req EXCEPT ![r] = [req[r] EXCEPT !.todo = req[r].todo \ {m}]]
  BY DEF LockNext
<1>2. req[r] \in [pc: {"add"}, goods: Goods, todo: SUBSET Masters]
                  \cup [pc: {"places"}, user: Users, chosen: SUBSET Stations, todo: SUBSET Stations]
  BY DEF TypeOK, RequestStates, Idle, LockNext
<1>3. req'[r].pc = req[r].pc /\ req'[r].todo = req[r].todo \ {m}
  BY <1>1, <1>2 DEF TypeOK
<1>4. m \in Masters /\ m \in Nat /\ req[r].todo \subseteq Nat
  BY <1>1, <1>2, GoodsAndStations, MastersAreNumbered DEF NextInOrder
<1>5. \A n \in req'[r].todo : m < n
  BY <1>1, <1>3, <1>4 DEF NextInOrder
<1>6. \A q \in Requests : q # r => req'[q] = req[q]
  BY <1>1 DEF TypeOK
<1>7. \A n \in Masters : masterLock'[n] = IF n = m THEN r ELSE masterLock[n]
  BY <1>1 DEF TypeOK
<1>8. LocksAscend'
  <2> SUFFICES ASSUME NEW q \in Requests, NEW n \in Masters, masterLock'[n] = q
               PROVE  req'[q].pc \in {"add", "places"} /\ \A k \in req'[q].todo : n < k
    BY DEF LocksAscend
  <2>1. CASE n = m
    BY <1>2, <1>3, <1>5, <1>7, <2>1
  <2>2. CASE n # m /\ q = r
    BY <1>2, <1>3, <1>7, <2>2 DEF WaitInv, LocksAscend
  <2>3. CASE n # m /\ q # r
    BY <1>6, <1>7, <2>3 DEF WaitInv, LocksAscend
  <2>4. QED  BY <2>1, <2>2, <2>3
<1>9. UsersAreHeldForPlaces'
  BY <1>3, <1>6 DEF LockNext, WaitInv, UsersAreHeldForPlaces
<1>10. LockedRows' = LockedRows \cup {m}
  BY <1>4, <1>7, NoRequestIsNoRequest DEF LockedRows
<1>11. QED  BY <1>8, <1>9, <1>10, FS_AddElement DEF WaitInv

LEMMA UpdatePlacesLockKeepsWaitInv ==
    ASSUME TypeOK, WaitInv, NEW r \in Requests, UpdatePlacesLock(r)
    PROVE  WaitInv'
<1>1. CASE Refuse(r)
  BY <1>1, ReturnKeepsWaitInv DEF Refuse
<1>2. CASE /\ userLock' = [userLock EXCEPT ![req[r].user] = r]
           /\ req' = [req EXCEPT ![r] = [pc |-> "places", user |-> req[r].user,
                                         chosen |-> req[r].chosen, todo |-> req[r].chosen]]
           /\ UNCHANGED <<database, masterLock>>
  <2>1. \A q \in Requests : req'[q] = IF q = r THEN [pc |-> "places", user |-> req[r].user,
                                         chosen |-> req[r].chosen, todo |-> req[r].chosen] ELSE req[q]
    BY <1>2 DEF TypeOK
  <2>2. \A m \in Masters : masterLock[m] # r
    BY DEF WaitInv, LocksAscend, UpdatePlacesLock, At
  <2>3. LocksAscend'
    BY <1>2, <2>1, <2>2 DEF WaitInv, LocksAscend
  <2>4. UsersAreHeldForPlaces'
    BY <1>2, <2>1 DEF TypeOK, WaitInv, UsersAreHeldForPlaces
  <2>5. QED  BY <1>2, <2>3, <2>4 DEF WaitInv, LockedRows
<1>3. QED  BY <1>1, <1>2 DEF UpdatePlacesLock

LEMMA NextKeepsWaitInv == Inv /\ WaitInv /\ [Next]_vars => WaitInv'
<1> SUFFICES ASSUME Inv, WaitInv, [Next]_vars
             PROVE  WaitInv'
  OBVIOUS
<1>0. TypeOK
  BY DEF Inv
<1>1. ASSUME NEW r \in Requests, Return(r)
      PROVE  WaitInv'
  BY <1>0, <1>1, ReturnKeepsWaitInv
<1>2. ASSUME NEW r \in Requests, NEW state, req[r] = Idle, Begin(r, state)
      PROVE  WaitInv'
  <2>1. req[r].pc \notin {"add", "places"}
    BY <1>2 DEF Begin, Idle
  <2>2. QED  BY <1>0, <1>2, <2>1, MovesKeepWaitInv DEF Begin
<1>3. ASSUME NEW r \in Requests, BeginRequest(r)
      PROVE  WaitInv'
  BY <1>2, <1>3 DEF BeginRequest, OpenScreen, CreateMasterBegin, CreateItemBegin, OpenPlaces
<1>4. ASSUME NEW r \in Requests, SendForm(r)
      PROVE  WaitInv'
  <2>1. ASSUME NEW op \in Operations, NEW name, req[r].pc = "screen", SendScreen(r, op, name)
        PROVE  WaitInv'
    BY <1>0, <1>1, <2>1, MovesKeepWaitInv DEF SendScreen, Refuse
  <2>2. ASSUME NEW chosen \in SUBSET Stations, SendPlaces(r, chosen)
        PROVE  WaitInv'
    BY <1>0, <2>2, MovesKeepWaitInv DEF SendPlaces, At
  <2>3. QED  BY <1>4, <2>1, <2>2 DEF SendForm, Operations
<1>5. ASSUME NEW r \in Requests, Continue(r)
      PROVE  WaitInv'
  <2>1. CASE CreateMaster(r) \/ WriteMaster(r) \/ CreateItem(r) \/ UpdatePlaces(r)
    BY <1>1, <2>1 DEF CreateMaster, WriteMaster, CreateItem, UpdatePlaces, Refuse
  <2>2. QED  BY <1>0, <1>5, <2>1, LockNextKeepsWaitInv, UpdatePlacesLockKeepsWaitInv DEF Continue
<1>6. ASSUME NEW r \in Requests, Abort(r)
      PROVE  WaitInv'
  BY <1>1, <1>6 DEF Abort, Refuse
<1>7. CASE UNCHANGED <<masterLock, userLock, req>>
  BY <1>7 DEF WaitInv, LocksAscend, UsersAreHeldForPlaces, LockedRows
<1>8. QED  BY <1>3, <1>4, <1>5, <1>6, <1>7 DEF Next, DeleteAccount, vars

\* Additions, forms of places and changes of masters lock rows of masters in
\* the order of their numbers, so no circle of waits comes about, whatever the
\* number of requests.
THEOREM WaitsEnd == Spec => []NoCircleOfWaits
<1>1. Init => WaitInv
  <2> SUFFICES ASSUME Init PROVE WaitInv
    OBVIOUS
  <2>1. LockedRows = {}
    BY DEF Init, LockedRows
  <2>2. QED  BY <2>1, FS_EmptySet, NoRequestIsNoRequest DEF Init, WaitInv, LocksAscend, UsersAreHeldForPlaces
<1>2. Inv /\ WaitInv => NoCircleOfWaits
  BY NobodyWaitsInCircles DEF Inv
<1>3. QED  BY <1>1, <1>2, NextKeepsWaitInv, InvHolds, PTL DEF Spec

=============================================================================
