-------------------------- MODULE CredentialsProofs --------------------------
(***************************************************************************)
(* Theorems about Credentials, for any users, requests, jobs and bounds:   *)
(* what the locks on the rows of the password and of the token are for.    *)
(***************************************************************************)
EXTENDS Credentials, FiniteSetTheorems, TLAPS

-----------------------------------------------------------------------------
(* The invariant. *)

Updating(s) == s.pc \in {"hash", "use", "change", "sessions", "commit"} /\ s.op = "update"
Leaving(s) == s.pc \in {"change", "sessions", "token", "commit"} /\ s.op = "leave"

\* Who has taken the token holds it until the commit, and the password too,
\* once that is taken.  A link that is still stored has changed no password.
ChangesHoldTheirRows ==
    \A r \in Requests : Updating(req[r]) =>
        LET s == req[r]
        IN  /\ s.token <= made
            /\ s.token = token[s.user] => password[s.user] < MaxPasswords
            /\ s.pc \in {"change", "sessions", "commit"} =>
                  tokenLock[s.user] = r /\ token[s.user] = s.token
            /\ s.pc \in {"sessions", "commit"} =>
                  passwordLock[s.user] = r /\ password[s.user] # 0

\* A deletion holds its user, then the password, then the token.
DeletionsHoldTheirRows ==
    \A r \in Requests : Leaving(req[r]) =>
        LET s == req[r]
        IN  /\ userLock[s.user] = r /\ alive[s.user]
            /\ s.pc \in {"sessions", "token", "commit"} => passwordLock[s.user] = r
            /\ s.pc = "commit" => tokenLock[s.user] = r

\* A job makes a token only for a user who is there.
JobsHoldTheirUsers ==
    \A j \in Jobs : jobs[j] # NoRow /\ jobs[j].state = "replacing" =>
        userLock[jobs[j].user] = j /\ alive[jobs[j].user]

\* A job under way has attempts left, and one that sends has made a token.
JobsAreInOrder ==
    \A j \in Jobs : jobs[j] # NoRow =>
        /\ jobs[j].state \in {"queued", "replacing", "sending"} => jobs[j].left > 0
        /\ jobs[j].state = "sending" => jobs[j].token # 0

\* A token is stored for one user, made by jobs of that user, and not used yet.
TokensAreApart ==
    /\ \A j \in Jobs : jobs[j] # NoRow => jobs[j].token <= made
    /\ \A u \in Users : token[u] # 0 =>
          /\ token[u] <= made /\ token[u] \notin used[u]
          /\ \A v \in Users : token[v] = token[u] => v = u
          /\ \A j \in Jobs : jobs[j] # NoRow /\ jobs[j].token = token[u] => jobs[j].user = u

Inv ==
    /\ TypeOK
    /\ ChangesHoldTheirRows
    /\ DeletionsHoldTheirRows
    /\ JobsHoldTheirUsers
    /\ JobsAreInOrder
    /\ TokensAreApart
    /\ EachLinkChangesOnce
    /\ LinksReachTheMailbox
    /\ GoneUsersCannotSignIn

-----------------------------------------------------------------------------
(* Locks. *)

LEMMA UnlockedLocks ==
    ASSUME NEW lock \in [Users -> Holders], NEW h \in Requests \cup Jobs
    PROVE  /\ Unlocked(lock, h) \in [Users -> Holders]
           /\ \A u \in Users : lock[u] # h => Unlocked(lock, h)[u] = lock[u]
BY DEF Unlocked, Holders

LEMMA FreedLocks ==
    ASSUME TypeOK, NEW h \in Requests \cup Jobs, FreeLocks(h)
    PROVE  /\ userLock' \in [Users -> Holders]
           /\ passwordLock' \in [Users -> Holders]
           /\ tokenLock' \in [Users -> Holders]
           /\ \A u \in Users : /\ userLock[u] # h => userLock'[u] = userLock[u]
                               /\ passwordLock[u] # h => passwordLock'[u] = passwordLock[u]
                               /\ tokenLock[u] # h => tokenLock'[u] = tokenLock[u]
BY UnlockedLocks DEF TypeOK, FreeLocks

LEMMA HoldersAreApart ==
    /\ \A r \in Requests : r \in Holders /\ r # Nobody /\ r \notin Jobs
    /\ \A j \in Jobs : j \in Holders /\ j # Nobody /\ j \notin Requests
BY NobodyIsNobody, RequestsAreNoJobs DEF Holders

\* A request that moves, takes free rows or gives its own back, and writes
\* nothing, keeps the invariant if its new state is in order.
LEMMA MovesKeepInv ==
    ASSUME Inv, NEW r \in Requests, NEW state \in RequestStates,
           req' = [req EXCEPT ![r] = state], UNCHANGED <<rows, mails, jobs>>,
           userLock' \in [Users -> Holders],
           passwordLock' \in [Users -> Holders],
           tokenLock' \in [Users -> Holders],
           \A u \in Users :
               /\ userLock[u] \notin {Nobody, r} => userLock'[u] = userLock[u]
               /\ passwordLock[u] \notin {Nobody, r} => passwordLock'[u] = passwordLock[u]
               /\ tokenLock[u] \notin {Nobody, r} => tokenLock'[u] = tokenLock[u],
           Updating(state) =>
               /\ state.token <= made
               /\ state.token = token[state.user] => password[state.user] < MaxPasswords
               /\ state.pc \in {"change", "sessions", "commit"} =>
                     tokenLock'[state.user] = r /\ token[state.user] = state.token
               /\ state.pc \in {"sessions", "commit"} =>
                     passwordLock'[state.user] = r /\ password[state.user] # 0,
           Leaving(state) =>
               /\ userLock'[state.user] = r /\ alive[state.user]
               /\ state.pc \in {"sessions", "token", "commit"} => passwordLock'[state.user] = r
               /\ state.pc = "commit" => tokenLock'[state.user] = r
    PROVE  Inv'
<1> USE DEF rows, mails
<1>1. \A q \in Requests : req'[q] = IF q = r THEN state ELSE req[q]
  BY DEF Inv, TypeOK
<1>2. TypeOK'
  BY DEF Inv, TypeOK
<1>3. ChangesHoldTheirRows'
  <2> SUFFICES ASSUME NEW q \in Requests, Updating(req'[q])
               PROVE  /\ req'[q].token <= made
                      /\ req'[q].token = token[req'[q].user] => password[req'[q].user] < MaxPasswords
                      /\ req'[q].pc \in {"change", "sessions", "commit"} =>
                            tokenLock'[req'[q].user] = q /\ token[req'[q].user] = req'[q].token
                      /\ req'[q].pc \in {"sessions", "commit"} =>
                            passwordLock'[req'[q].user] = q /\ password[req'[q].user] # 0
    BY DEF ChangesHoldTheirRows, Updating
  <2>1. CASE q = r
    BY <2>1, <1>1
  <2>2. CASE q # r
    <3>1. req'[q] = req[q] /\ req[q].user \in Users
      BY <2>2, <1>1 DEF Inv, TypeOK, RequestStates, Idle, Updating
    <3>2. QED  BY <2>2, <3>1, HoldersAreApart DEF Inv, ChangesHoldTheirRows
  <2>3. QED  BY <2>1, <2>2
<1>4. DeletionsHoldTheirRows'
  <2> SUFFICES ASSUME NEW q \in Requests, Leaving(req'[q])
               PROVE  /\ userLock'[req'[q].user] = q /\ alive[req'[q].user]
                      /\ req'[q].pc \in {"sessions", "token", "commit"} => passwordLock'[req'[q].user] = q
                      /\ req'[q].pc = "commit" => tokenLock'[req'[q].user] = q
    BY DEF DeletionsHoldTheirRows, Leaving
  <2>1. CASE q = r
    BY <2>1, <1>1
  <2>2. CASE q # r
    <3>1. req'[q] = req[q] /\ req[q].user \in Users
      BY <2>2, <1>1 DEF Inv, TypeOK, RequestStates, Idle, Leaving
    <3>2. QED  BY <2>2, <3>1, HoldersAreApart DEF Inv, DeletionsHoldTheirRows
  <2>3. QED  BY <2>1, <2>2
<1>5. JobsHoldTheirUsers'
  <2> SUFFICES ASSUME NEW j \in Jobs, jobs[j] # NoRow, jobs[j].state = "replacing"
               PROVE  userLock'[jobs[j].user] = j /\ alive[jobs[j].user]
    BY DEF JobsHoldTheirUsers
  <2>1. jobs[j].user \in Users
    BY DEF Inv, TypeOK, JobRows
  <2>2. QED  BY <2>1, HoldersAreApart DEF Inv, JobsHoldTheirUsers
<1>6. TokensAreApart' /\ LinksReachTheMailbox' /\ JobsAreInOrder'
  BY DEF Inv, TokensAreApart, LinksReachTheMailbox, JobsAreInOrder
<1>7. EachLinkChangesOnce' /\ GoneUsersCannotSignIn'
  <2>1. alive' = alive /\ password' = password /\ used' = used /\ token' = token
    OBVIOUS
  <2>2. EachLinkChangesOnce /\ GoneUsersCannotSignIn
    BY DEF Inv
  <2>3. EachLinkChangesOnce'
    BY <2>1, <2>2, Zenon DEF EachLinkChangesOnce
  <2>4. GoneUsersCannotSignIn'
    BY <2>1, <2>2, Zenon DEF GoneUsersCannotSignIn
  <2>5. QED  BY <2>3, <2>4
<1>8. QED  BY <1>2, <1>3, <1>4, <1>5, <1>6, <1>7 DEF Inv

LEMMA RefuseKeepsInv ==
    ASSUME Inv, NEW r \in Requests, Refuse(r)
    PROVE  Inv'
<1>1. Idle \in RequestStates /\ ~Updating(Idle) /\ ~Leaving(Idle)
  BY DEF Idle, RequestStates, Updating, Leaving
<1>2. FreeLocks(r) /\ TypeOK /\ req' = [req EXCEPT ![r] = Idle] /\ UNCHANGED <<rows, mails, jobs>>
  BY DEF Inv, Refuse, Return
<1>3. /\ userLock' \in [Users -> Holders]
      /\ passwordLock' \in [Users -> Holders]
      /\ tokenLock' \in [Users -> Holders]
      /\ \A u \in Users : /\ userLock[u] # r => userLock'[u] = userLock[u]
                          /\ passwordLock[u] # r => passwordLock'[u] = passwordLock[u]
                          /\ tokenLock[u] # r => tokenLock'[u] = tokenLock[u]
  BY <1>2, FreedLocks
<1>4. QED  BY <1>1, <1>2, <1>3, MovesKeepInv

-----------------------------------------------------------------------------
(* The steps of a request that write nothing. *)

LEMMA CheckCredentialsKeepsInv ==
    ASSUME Inv, NEW r \in Requests, NEW u \in Users, CheckCredentials(r, u)
    PROVE  Inv'
<1> DEFINE state == [pc |-> "signin", user |-> u, password |-> password[u]]
<1>1. state \in RequestStates
  BY DEF Inv, TypeOK, RequestStates, CheckCredentials
<1>2. ~Updating(state) /\ ~Leaving(state)
  BY DEF Updating, Leaving
<1>3. QED  BY <1>1, <1>2, MovesKeepInv DEF Inv, TypeOK, CheckCredentials, GoTo, locks

LEMMA UpdatePasswordBeginKeepsInv ==
    ASSUME Inv, NEW r \in Requests, NEW u \in Users, UpdatePasswordBegin(r, u)
    PROVE  Inv'
<1> DEFINE state == [pc |-> "hash", op |-> "update", user |-> u, token |-> token[u], inTime |-> TRUE, ended |-> {}]
<1>1. state \in RequestStates
  BY DEF Inv, TypeOK, RequestStates, UpdatePasswordBegin
<1>2. ~Leaving(state) /\ state.token <= made
  BY DEF Inv, TokensAreApart, UpdatePasswordBegin, Leaving
<1>3. QED  BY <1>1, <1>2, MovesKeepInv DEF Inv, TypeOK, UpdatePasswordBegin, GoTo, locks

\* What is known of a request that changes a password.
LEMMA UpdatesHaveTheirFields ==
    ASSUME TypeOK, NEW r \in Requests, Updating(req[r])
    PROVE  /\ req[r].user \in Users /\ req[r].token \in Tokens
           /\ req[r].inTime \in BOOLEAN /\ req[r].ended \in SUBSET Sessions
           /\ req[r] \in [pc: {"hash", "use", "change", "sessions", "commit"}, op: {"update"},
                           user: Users, token: Tokens, inTime: BOOLEAN, ended: SUBSET Sessions]
BY DEF TypeOK, RequestStates, Idle, Updating

LEMMA DeletionsHaveTheirFields ==
    ASSUME TypeOK, NEW r \in Requests, Leaving(req[r])
    PROVE  /\ req[r].user \in Users /\ req[r].ended \in SUBSET Sessions
           /\ req[r] \in [pc: {"change", "sessions", "token", "commit"}, op: {"leave"},
                           user: Users, ended: SUBSET Sessions]
BY DEF TypeOK, RequestStates, Idle, Leaving

LEMMA UpdatePasswordOpenKeepsInv ==
    ASSUME Inv, NEW r \in Requests, UpdatePasswordOpen(r)
    PROVE  Inv'
<1> DEFINE inTime == req[r].token \notin expired
           state == [req[r] EXCEPT !.pc = "use", !.inTime = inTime]
<1>1. Updating(req[r])
  BY DEF Inv, TypeOK, RequestStates, Idle, Updating, UpdatePasswordOpen
<1>2. inTime \in BOOLEAN
  OBVIOUS
<1>3. req' = [req EXCEPT ![r] = state] /\ UNCHANGED <<rows, mails, jobs, locks>>
  BY DEF UpdatePasswordOpen, GoTo
<1> HIDE DEF inTime
<1>4. /\ state \in [pc: {"use"}, op: {"update"}, user: Users, token: Tokens, inTime: BOOLEAN, ended: SUBSET Sessions]
      /\ state.user = req[r].user /\ state.token = req[r].token
  BY <1>1, <1>2, UpdatesHaveTheirFields DEF Inv
<1> HIDE DEF state
<1>5. state \in RequestStates /\ state.pc = "use" /\ ~Leaving(state)
  BY <1>4 DEF RequestStates, Leaving
<1>6. /\ state.token <= made
      /\ state.token = token[state.user] => password[state.user] < MaxPasswords
  BY <1>1, <1>4 DEF Inv, ChangesHoldTheirRows
<1>7. QED  BY <1>3, <1>5, <1>6, MovesKeepInv DEF Inv, TypeOK, locks

LEMMA DeleteLiveTokenKeepsInv ==
    ASSUME Inv, NEW r \in Requests, DeleteLiveToken(r)
    PROVE  Inv'
<1> DEFINE u == req[r].user
           state == [req[r] EXCEPT !.pc = "change"]
<1>1. CASE ~(token[u] = req[r].token /\ req[r].inTime)
  BY <1>1, RefuseKeepsInv DEF DeleteLiveToken
<1>2. CASE token[u] = req[r].token /\ req[r].inTime
  <2>1. Updating(req[r])
    BY DEF Updating, DeleteLiveToken, Doing
  <2>2. /\ tokenLock[u] = Nobody /\ tokenLock' = [tokenLock EXCEPT ![u] = r]
        /\ req' = [req EXCEPT ![r] = state]
        /\ UNCHANGED <<rows, mails, jobs, userLock, passwordLock>>
    BY <1>2 DEF DeleteLiveToken, GoTo
  <2>3. /\ state \in [pc: {"change"}, op: {"update"}, user: Users, token: Tokens, inTime: BOOLEAN, ended: SUBSET Sessions]
        /\ state.user = u /\ state.token = req[r].token
    BY <2>1, UpdatesHaveTheirFields DEF Inv
  <2> HIDE DEF state
  <2>4. state \in RequestStates /\ state.pc = "change" /\ ~Leaving(state)
    BY <2>3 DEF RequestStates, Leaving
  <2>5. /\ state.token <= made /\ token[state.user] = state.token
        /\ state.token = token[state.user] => password[state.user] < MaxPasswords
    BY <1>2, <2>1, <2>3 DEF Inv, ChangesHoldTheirRows
  <2>6. /\ tokenLock' \in [Users -> Holders] /\ tokenLock'[state.user] = r
        /\ \A v \in Users : tokenLock[v] \notin {Nobody, r} => tokenLock'[v] = tokenLock[v]
    BY <2>2, <2>3, HoldersAreApart DEF Inv, TypeOK
  <2>7. QED  BY <2>2, <2>4, <2>5, <2>6, MovesKeepInv DEF Inv, TypeOK
<1>3. QED  BY <1>1, <1>2

LEMMA TakePasswordKeepsInv ==
    ASSUME Inv, NEW r \in Requests, TakePassword(r)
    PROVE  Inv'
<1> DEFINE u == req[r].user
           state == [req[r] EXCEPT !.pc = "sessions"]
<1>1. CASE password[u] = 0
  BY <1>1, RefuseKeepsInv DEF TakePassword
<1>2. CASE password[u] # 0
  <2>1. Updating(req[r]) \/ Leaving(req[r])
    BY DEF Inv, TypeOK, RequestStates, Idle, Updating, Leaving, TakePassword
  <2>2. /\ passwordLock[u] = Nobody /\ passwordLock' = [passwordLock EXCEPT ![u] = r]
        /\ req' = [req EXCEPT ![r] = state]
        /\ UNCHANGED <<rows, mails, jobs, userLock, tokenLock>>
    BY <1>2 DEF TakePassword, GoTo
  <2>3. u \in Users
    BY <2>1, UpdatesHaveTheirFields, DeletionsHaveTheirFields DEF Inv
  <2>4. /\ passwordLock' \in [Users -> Holders] /\ passwordLock'[u] = r
        /\ \A v \in Users : passwordLock[v] \notin {Nobody, r} => passwordLock'[v] = passwordLock[v]
    BY <2>2, <2>3, HoldersAreApart DEF Inv, TypeOK
  <2>5. CASE Updating(req[r])
    <3>1. /\ state \in [pc: {"sessions"}, op: {"update"}, user: Users, token: Tokens, inTime: BOOLEAN, ended: SUBSET Sessions]
          /\ state.user = u /\ state.token = req[r].token
      BY <2>5, UpdatesHaveTheirFields DEF Inv
    <3>2. /\ req[r].token <= made
          /\ req[r].token = token[u] => password[u] < MaxPasswords
          /\ tokenLock[u] = r /\ token[u] = req[r].token
      BY <2>5 DEF Inv, ChangesHoldTheirRows, TakePassword
    <3> HIDE DEF state, u
    <3>3. state \in RequestStates /\ state.pc = "sessions" /\ ~Leaving(state)
      BY <3>1 DEF RequestStates, Leaving
    <3>4. QED  BY <1>2, <2>2, <2>4, <3>1, <3>2, <3>3, MovesKeepInv DEF Inv, TypeOK
  <2>6. CASE Leaving(req[r])
    <3>1. state \in [pc: {"sessions"}, op: {"leave"}, user: Users, ended: SUBSET Sessions] /\ state.user = u
      BY <2>6, DeletionsHaveTheirFields DEF Inv
    <3>2. userLock[u] = r /\ alive[u]
      BY <2>6 DEF Inv, DeletionsHoldTheirRows
    <3> HIDE DEF state, u
    <3>3. state \in RequestStates /\ state.pc = "sessions" /\ ~Updating(state)
      BY <3>1 DEF RequestStates, Updating
    <3>4. QED  BY <2>2, <2>4, <3>1, <3>2, <3>3, MovesKeepInv DEF Inv, TypeOK
  <2>7. QED  BY <2>1, <2>5, <2>6
<1>3. QED  BY <1>1, <1>2

LEMMA EndSessionsKeepsInv ==
    ASSUME Inv, NEW r \in Requests, EndSessions(r)
    PROVE  Inv'
<1> DEFINE u == req[r].user
           pc == IF req[r].op = "leave" THEN "token" ELSE "commit"
           ended == SessionsOf(u)
           state == [req[r] EXCEPT !.pc = pc, !.ended = ended]
<1>1. Updating(req[r]) \/ Leaving(req[r])
  BY DEF Inv, TypeOK, RequestStates, Idle, Updating, Leaving, EndSessions
<1>2. req' = [req EXCEPT ![r] = state] /\ UNCHANGED <<rows, mails, jobs, locks>>
  BY DEF EndSessions, GoTo
<1>3. ended \in SUBSET Sessions
  BY DEF SessionsOf
<1> HIDE DEF ended
<1>4. CASE Updating(req[r])
  <2>1. /\ state \in [pc: {"commit"}, op: {"update"}, user: Users, token: Tokens, inTime: BOOLEAN, ended: SUBSET Sessions]
        /\ state.user = u /\ state.token = req[r].token
    BY <1>3, <1>4, UpdatesHaveTheirFields DEF Inv, Updating
  <2>2. /\ req[r].token <= made
        /\ req[r].token = token[u] => password[u] < MaxPasswords
        /\ tokenLock[u] = r /\ token[u] = req[r].token
        /\ passwordLock[u] = r /\ password[u] # 0
    BY <1>4 DEF Inv, ChangesHoldTheirRows, EndSessions
  <2> HIDE DEF state, u
  <2>3. state \in RequestStates /\ state.pc = "commit" /\ ~Leaving(state)
    BY <2>1 DEF RequestStates, Leaving
  <2>4. QED  BY <1>2, <2>1, <2>2, <2>3, MovesKeepInv DEF Inv, TypeOK, locks
<1>5. CASE Leaving(req[r])
  <2>1. state \in [pc: {"token"}, op: {"leave"}, user: Users, ended: SUBSET Sessions] /\ state.user = u
    BY <1>3, <1>5, DeletionsHaveTheirFields DEF Inv, Leaving
  <2>2. userLock[u] = r /\ alive[u] /\ passwordLock[u] = r
    BY <1>5 DEF Inv, DeletionsHoldTheirRows, EndSessions
  <2> HIDE DEF state, u
  <2>3. state \in RequestStates /\ state.pc = "token" /\ ~Updating(state)
    BY <2>1 DEF RequestStates, Updating
  <2>4. QED  BY <1>2, <2>1, <2>2, <2>3, MovesKeepInv DEF Inv, TypeOK, locks
<1>6. QED  BY <1>1, <1>4, <1>5

LEMMA DeleteAccountBeginKeepsInv ==
    ASSUME Inv, NEW r \in Requests, NEW u \in Users, DeleteAccountBegin(r, u)
    PROVE  Inv'
<1> DEFINE state == [pc |-> "change", op |-> "leave", user |-> u, ended |-> {}]
<1>1. state \in RequestStates /\ ~Updating(state)
  BY DEF RequestStates, Updating
<1>2. /\ userLock' \in [Users -> Holders] /\ userLock'[u] = r
      /\ \A v \in Users : userLock[v] \notin {Nobody, r} => userLock'[v] = userLock[v]
  BY HoldersAreApart DEF Inv, TypeOK, DeleteAccountBegin
<1>3. alive[u] /\ req' = [req EXCEPT ![r] = state] /\ UNCHANGED <<rows, mails, jobs, passwordLock, tokenLock>>
  BY DEF DeleteAccountBegin, GoTo
<1>4. QED  BY <1>1, <1>2, <1>3, MovesKeepInv DEF Inv, TypeOK

LEMMA DeleteTokensKeepsInv ==
    ASSUME Inv, NEW r \in Requests, DeleteTokens(r)
    PROVE  Inv'
<1> DEFINE u == req[r].user
           state == [req[r] EXCEPT !.pc = "commit"]
<1>1. Leaving(req[r]) /\ req[r].pc = "token"
  BY DEF Leaving, DeleteTokens, Doing
<1>2. /\ tokenLock[u] = Nobody /\ tokenLock' = [tokenLock EXCEPT ![u] = r]
      /\ req' = [req EXCEPT ![r] = state]
      /\ UNCHANGED <<rows, mails, jobs, userLock, passwordLock>>
  BY DEF DeleteTokens, GoTo
<1>3. state \in [pc: {"commit"}, op: {"leave"}, user: Users, ended: SUBSET Sessions] /\ state.user = u /\ u \in Users
  BY <1>1, DeletionsHaveTheirFields DEF Inv
<1>4. userLock[u] = r /\ alive[u] /\ passwordLock[u] = r
  BY <1>1 DEF Inv, DeletionsHoldTheirRows
<1>5. /\ tokenLock' \in [Users -> Holders] /\ tokenLock'[u] = r
      /\ \A v \in Users : tokenLock[v] \notin {Nobody, r} => tokenLock'[v] = tokenLock[v]
  BY <1>2, <1>3, HoldersAreApart DEF Inv, TypeOK
<1> HIDE DEF state, u
<1>6. state \in RequestStates /\ state.pc = "commit" /\ ~Updating(state)
  BY <1>3 DEF RequestStates, Updating
<1>7. QED  BY <1>2, <1>3, <1>4, <1>5, <1>6, MovesKeepInv DEF Inv, TypeOK

-----------------------------------------------------------------------------
(* The steps that write. *)

\* What the requests and jobs other than h hold, they still hold when h is done.
LEMMA OthersHoldOn ==
    ASSUME Inv, NEW r \in Requests, Return(r)
    PROVE  /\ req' \in [Requests -> RequestStates]
           /\ \A q \in Requests : Updating(req'[q]) =>
                 q # r /\ req'[q] = req[q] /\ req[q].user \in Users /\ req[q].token \in Tokens
           /\ \A q \in Requests : Leaving(req'[q]) =>
                 q # r /\ req'[q] = req[q] /\ req[q].user \in Users
           /\ userLock' \in [Users -> Holders]
           /\ passwordLock' \in [Users -> Holders]
           /\ tokenLock' \in [Users -> Holders]
           /\ \A u \in Users : /\ userLock[u] # r => userLock'[u] = userLock[u]
                               /\ passwordLock[u] # r => passwordLock'[u] = passwordLock[u]
                               /\ tokenLock[u] # r => tokenLock'[u] = tokenLock[u]
<1>1. FreeLocks(r) /\ TypeOK /\ req' = [req EXCEPT ![r] = Idle]
  BY DEF Inv, Return
<1>2. /\ userLock' \in [Users -> Holders]
      /\ passwordLock' \in [Users -> Holders]
      /\ tokenLock' \in [Users -> Holders]
      /\ \A u \in Users : /\ userLock[u] # r => userLock'[u] = userLock[u]
                          /\ passwordLock[u] # r => passwordLock'[u] = passwordLock[u]
                          /\ tokenLock[u] # r => tokenLock'[u] = tokenLock[u]
  BY <1>1, FreedLocks
<1>3. Idle \in RequestStates /\ ~Updating(Idle) /\ ~Leaving(Idle)
  BY DEF Idle, RequestStates, Updating, Leaving
<1>4. /\ req' \in [Requests -> RequestStates]
      /\ \A q \in Requests : req'[q] = IF q = r THEN Idle ELSE req[q]
  BY <1>1, <1>3 DEF TypeOK
<1>5. ASSUME NEW q \in Requests, Updating(req'[q])
      PROVE  q # r /\ req'[q] = req[q] /\ req[q].user \in Users /\ req[q].token \in Tokens
  BY <1>1, <1>3, <1>4, <1>5, UpdatesHaveTheirFields
<1>6. ASSUME NEW q \in Requests, Leaving(req'[q])
      PROVE  q # r /\ req'[q] = req[q] /\ req[q].user \in Users
  BY <1>1, <1>3, <1>4, <1>6, DeletionsHaveTheirFields
<1>7. QED  BY <1>2, <1>4, <1>5, <1>6

\* A session made, or taken away, is nothing to the invariant.
LEMMA SessionsKeepInv ==
    ASSUME Inv, sessions' \in [Sessions -> SessionRows \cup {NoRow}],
           UNCHANGED <<alive, password, token, mails, jobs>>,
           \/ UNCHANGED <<locks, req>>
           \/ \E r \in Requests : Return(r)
    PROVE  Inv'
<1> USE DEF mails, locks
<1>0. EachLinkChangesOnce' /\ GoneUsersCannotSignIn'
  <2>1. alive' = alive /\ password' = password /\ used' = used /\ token' = token
    OBVIOUS
  <2>2. EachLinkChangesOnce /\ GoneUsersCannotSignIn
    BY DEF Inv
  <2>3. EachLinkChangesOnce'
    BY <2>1, <2>2, Zenon DEF EachLinkChangesOnce
  <2>4. GoneUsersCannotSignIn'
    BY <2>1, <2>2, Zenon DEF GoneUsersCannotSignIn
  <2>5. QED  BY <2>3, <2>4
<1>1. CASE UNCHANGED <<locks, req>>
  <2>1. TypeOK'
    BY <1>1 DEF Inv, TypeOK
  <2>2. ChangesHoldTheirRows' /\ DeletionsHoldTheirRows' /\ JobsHoldTheirUsers' /\ TokensAreApart' /\ LinksReachTheMailbox'
    BY <1>1 DEF Inv, ChangesHoldTheirRows, DeletionsHoldTheirRows, JobsHoldTheirUsers, TokensAreApart, LinksReachTheMailbox
  <2>3. JobsAreInOrder'
    BY DEF Inv, JobsAreInOrder
  <2>4. QED  BY <1>0, <2>1, <2>2, <2>3 DEF Inv
<1>2. ASSUME NEW r \in Requests, Return(r)
      PROVE  Inv'
  <2>0. /\ \A q \in Requests : Updating(req'[q]) =>
              q # r /\ req'[q] = req[q] /\ req[q].user \in Users
        /\ \A q \in Requests : Leaving(req'[q]) =>
              q # r /\ req'[q] = req[q] /\ req[q].user \in Users
        /\ \A u \in Users : /\ userLock[u] # r => userLock'[u] = userLock[u]
                            /\ passwordLock[u] # r => passwordLock'[u] = passwordLock[u]
                            /\ tokenLock[u] # r => tokenLock'[u] = tokenLock[u]
    BY <1>2, OthersHoldOn
  <2>1. TypeOK'
    BY <1>2, OthersHoldOn DEF Inv, TypeOK
  <2>2. ChangesHoldTheirRows'
    <3> SUFFICES ASSUME NEW q \in Requests, Updating(req'[q])
                 PROVE  /\ req[q].token <= made
                        /\ req[q].token = token[req[q].user] => password[req[q].user] < MaxPasswords
                        /\ req[q].pc \in {"change", "sessions", "commit"} =>
                              tokenLock'[req[q].user] = q /\ token[req[q].user] = req[q].token
                        /\ req[q].pc \in {"sessions", "commit"} =>
                              passwordLock'[req[q].user] = q /\ password[req[q].user] # 0
      BY <2>0 DEF ChangesHoldTheirRows
    <3>1. req'[q] = req[q] /\ q # r /\ req[q].user \in Users
      BY <2>0
    <3>2. QED  BY <2>0, <3>1 DEF Inv, ChangesHoldTheirRows
  <2>3. DeletionsHoldTheirRows'
    <3> SUFFICES ASSUME NEW q \in Requests, Leaving(req'[q])
                 PROVE  /\ userLock'[req[q].user] = q /\ alive[req[q].user]
                        /\ req[q].pc \in {"sessions", "token", "commit"} => passwordLock'[req[q].user] = q
                        /\ req[q].pc = "commit" => tokenLock'[req[q].user] = q
      BY <2>0 DEF DeletionsHoldTheirRows
    <3>1. req'[q] = req[q] /\ q # r /\ req[q].user \in Users
      BY <2>0
    <3>2. QED  BY <2>0, <3>1 DEF Inv, DeletionsHoldTheirRows
  <2>4. JobsHoldTheirUsers'
    <3> SUFFICES ASSUME NEW j \in Jobs, jobs[j] # NoRow, jobs[j].state = "replacing"
                 PROVE  userLock'[jobs[j].user] = j /\ alive[jobs[j].user]
      BY DEF JobsHoldTheirUsers
    <3>1. jobs[j].user \in Users
      BY DEF Inv, TypeOK, JobRows
    <3>2. QED  BY <2>0, <3>1, HoldersAreApart DEF Inv, JobsHoldTheirUsers
  <2>5. TokensAreApart' /\ LinksReachTheMailbox'
    BY DEF Inv, TokensAreApart, LinksReachTheMailbox
  <2>6. JobsAreInOrder'
    BY DEF Inv, JobsAreInOrder
  <2>7. QED  BY <1>0, <2>1, <2>2, <2>3, <2>4, <2>5, <2>6 DEF Inv
<1>3. QED  BY <1>1, <1>2

LEMMA CreateSessionKeepsInv ==
    ASSUME Inv, NEW r \in Requests, NEW s \in Sessions, CreateSession(r, s)
    PROVE  Inv'
<1>1. [user |-> req[r].user, password |-> req[r].password] \in SessionRows
  BY DEF Inv, TypeOK, RequestStates, Idle, CreateSession, SessionRows
<1>2. sessions' \in [Sessions -> SessionRows \cup {NoRow}]
  BY <1>1 DEF Inv, TypeOK, CreateSession
<1>3. QED  BY <1>2, SessionsKeepInv DEF CreateSession

LEMMA DeleteSessionKeepsInv ==
    ASSUME Inv, NEW s \in Sessions, DeleteSession(s)
    PROVE  Inv'
<1>1. sessions' \in [Sessions -> SessionRows \cup {NoRow}]
  BY DEF Inv, TypeOK, DeleteSession
<1>2. QED  BY <1>1, SessionsKeepInv DEF DeleteSession

LEMMA SweptSessionsAreSessions ==
    ASSUME TypeOK, NEW ended
    PROVE  Without(ended) \in [Sessions -> SessionRows \cup {NoRow}]
BY DEF TypeOK, Without

\* A link adds itself to those that have been used, which are finitely many.
LEMMA UsedLinksAreCounted ==
    ASSUME TypeOK, NEW u \in Users, NEW t, t \notin used[u]
    PROVE  /\ Cardinality(used[u] \cup {t}) = Cardinality(used[u]) + 1
           /\ Cardinality(used[u]) \in Nat
<1>1. made \in Int /\ used[u] \in SUBSET (1..made)
  BY BoundsAreNumbers DEF TypeOK
<1>2. IsFiniteSet(1..made)
  BY <1>1, FS_Interval
<1>3. IsFiniteSet(used[u])
  BY <1>1, <1>2, FS_Subset
<1>4. QED  BY <1>3, FS_AddElement, FS_CardinalityType

LEMMA UpdatePasswordCommitKeepsInv ==
    ASSUME Inv, NEW r \in Requests, UpdatePasswordCommit(r)
    PROVE  Inv'
<1> DEFINE u == req[r].user
           t == req[r].token
<1>1. Return(r) /\ UNCHANGED <<alive, expired, made, mailed, jobs>>
  BY DEF UpdatePasswordCommit
<1>2. /\ u \in Users /\ t \in Tokens /\ t <= made
      /\ token[u] = t /\ tokenLock[u] = r /\ passwordLock[u] = r
      /\ password[u] # 0 /\ password[u] < MaxPasswords
  <2>1. Updating(req[r]) /\ req[r].pc = "commit"
    BY DEF Updating, UpdatePasswordCommit, Doing
  <2>2. QED  BY <2>1, UpdatesHaveTheirFields DEF Inv, ChangesHoldTheirRows
<1>3. /\ token' = [token EXCEPT ![u] = 0]
      /\ password' = [password EXCEPT ![u] = @ + 1]
      /\ used' = [used EXCEPT ![u] = @ \cup {t}]
      /\ sessions' = Without(req[r].ended)
  BY <1>2 DEF UpdatePasswordCommit, Inv, TypeOK
<1>4. alive[u] /\ t \notin used[u] /\ t # 0
  BY <1>2 DEF Inv, GoneUsersCannotSignIn, TokensAreApart, TypeOK, Tokens
<1>5. /\ req' \in [Requests -> RequestStates]
      /\ userLock' \in [Users -> Holders]
      /\ passwordLock' \in [Users -> Holders]
      /\ tokenLock' \in [Users -> Holders]
  BY <1>1, OthersHoldOn
<1>6. /\ \A q \in Requests : Updating(req'[q]) =>
            q # r /\ req'[q] = req[q] /\ req[q].user \in Users /\ req[q].token \in Tokens
      /\ \A q \in Requests : Leaving(req'[q]) =>
            q # r /\ req'[q] = req[q] /\ req[q].user \in Users
      /\ \A v \in Users : /\ userLock[v] # r => userLock'[v] = userLock[v]
                          /\ passwordLock[v] # r => passwordLock'[v] = passwordLock[v]
                          /\ tokenLock[v] # r => tokenLock'[v] = tokenLock[v]
  BY <1>1, OthersHoldOn
<1> HIDE DEF u, t
<1>7. TypeOK'
  <2>1. token' \in [Users -> Tokens \cup {0}]
    BY <1>3 DEF Inv, TypeOK
  <2>2. password' \in [Users -> Passwords \cup {0}]
    <3>1. password[u] \in Nat /\ MaxPasswords \in Nat /\ password[u] + 1 \in Passwords
      BY <1>2, BoundsAreNumbers DEF Inv, TypeOK, Passwords
    <3>2. QED  BY <1>3, <3>1 DEF Inv, TypeOK
  <2>3. used' \in [Users -> SUBSET (1..made)]
    <3>1. t \in 1..made
      BY <1>2 DEF Inv, TypeOK, Tokens
    <3>2. QED  BY <1>3, <3>1 DEF Inv, TypeOK
  <2>4. sessions' \in [Sessions -> SessionRows \cup {NoRow}]
    BY <1>3, SweptSessionsAreSessions DEF Inv
  <2>5. QED  BY <1>1, <1>5, <2>1, <2>2, <2>3, <2>4 DEF Inv, TypeOK
<1>8. ChangesHoldTheirRows'
  <2> SUFFICES ASSUME NEW q \in Requests, Updating(req'[q])
               PROVE  /\ req[q].token <= made
                      /\ req[q].token = token'[req[q].user] => password'[req[q].user] < MaxPasswords
                      /\ req[q].pc \in {"change", "sessions", "commit"} =>
                            tokenLock'[req[q].user] = q /\ token'[req[q].user] = req[q].token
                      /\ req[q].pc \in {"sessions", "commit"} =>
                            passwordLock'[req[q].user] = q /\ password'[req[q].user] # 0
    BY <1>1, <1>6 DEF ChangesHoldTheirRows
  <2>1. q # r /\ req'[q] = req[q] /\ req[q].user \in Users /\ req[q].token \in Tokens /\ Updating(req[q])
    BY <1>6
  <2>2. /\ req[q].token <= made
        /\ req[q].token = token[req[q].user] => password[req[q].user] < MaxPasswords
        /\ req[q].pc \in {"change", "sessions", "commit"} =>
              tokenLock[req[q].user] = q /\ token[req[q].user] = req[q].token
        /\ req[q].pc \in {"sessions", "commit"} =>
              passwordLock[req[q].user] = q /\ password[req[q].user] # 0
    BY <2>1 DEF Inv, ChangesHoldTheirRows
  <2>3. CASE req[q].user = u
    <3>1. token'[u] = 0
      BY <1>2, <1>3 DEF Inv, TypeOK
    <3>2. req[q].token # 0
      BY <2>1 DEF Tokens
    <3>3. req[q].pc \notin {"change", "sessions", "commit"}
      BY <1>2, <2>1, <2>2, <2>3
    <3>4. QED  BY <2>2, <2>3, <3>1, <3>2, <3>3
  <2>4. CASE req[q].user # u
    <3>1. token'[req[q].user] = token[req[q].user] /\ password'[req[q].user] = password[req[q].user]
      BY <1>3, <2>1, <2>4 DEF Inv, TypeOK
    <3>2. QED  BY <1>6, <2>1, <2>2, <3>1
  <2>5. QED  BY <2>3, <2>4
<1>9. DeletionsHoldTheirRows'
  <2> SUFFICES ASSUME NEW q \in Requests, Leaving(req'[q])
               PROVE  /\ userLock'[req[q].user] = q /\ alive[req[q].user]
                      /\ req[q].pc \in {"sessions", "token", "commit"} => passwordLock'[req[q].user] = q
                      /\ req[q].pc = "commit" => tokenLock'[req[q].user] = q
    BY <1>1, <1>6 DEF DeletionsHoldTheirRows
  <2>1. req'[q] = req[q] /\ q # r /\ req[q].user \in Users
    BY <1>6
  <2>2. QED  BY <1>6, <2>1 DEF Inv, DeletionsHoldTheirRows
<1>10. JobsHoldTheirUsers' /\ JobsAreInOrder'
  <2> SUFFICES ASSUME NEW j \in Jobs, jobs[j] # NoRow, jobs[j].state = "replacing"
               PROVE  userLock'[jobs[j].user] = j /\ alive[jobs[j].user]
    BY <1>1 DEF Inv, JobsHoldTheirUsers, JobsAreInOrder
  <2>1. jobs[j].user \in Users
    BY DEF Inv, TypeOK, JobRows
  <2>2. QED  BY <1>6, <2>1, HoldersAreApart DEF Inv, JobsHoldTheirUsers
<1>11. TokensAreApart' /\ LinksReachTheMailbox'
  <2>1. \A v \in Users : token'[v] # 0 => v # u /\ token'[v] = token[v] /\ used'[v] = used[v]
    BY <1>3 DEF Inv, TypeOK
  <2>2. QED  BY <1>1, <2>1 DEF Inv, TokensAreApart, LinksReachTheMailbox
<1>12. EachLinkChangesOnce'
  <2> SUFFICES ASSUME NEW v \in Users, alive[v]
               PROVE  password'[v] = 1 + Cardinality(used'[v])
    BY <1>1 DEF EachLinkChangesOnce
  <2>1. password[v] = 1 + Cardinality(used[v])
    BY DEF Inv, EachLinkChangesOnce
  <2>2. CASE v = u
    <3>1. Cardinality(used'[v]) = Cardinality(used[v]) + 1
      BY <1>2, <1>3, <1>4, <2>2, UsedLinksAreCounted DEF Inv, TypeOK
    <3>2. password'[v] = password[v] + 1
      BY <1>2, <1>3, <2>2 DEF Inv, TypeOK
    <3>3. Cardinality(used[v]) \in Nat
      BY <1>4, <2>2, UsedLinksAreCounted DEF Inv
    <3>4. QED  BY <2>1, <3>1, <3>2, <3>3
  <2>3. CASE v # u
    BY <1>3, <2>1, <2>3 DEF Inv, TypeOK
  <2>4. QED  BY <2>2, <2>3
<1>13. GoneUsersCannotSignIn'
  <2> SUFFICES ASSUME NEW v \in Users, ~alive[v]
               PROVE  password'[v] = 0 /\ token'[v] = 0
    BY <1>1 DEF GoneUsersCannotSignIn
  <2>1. v # u
    BY <1>4
  <2>2. QED  BY <1>3, <2>1 DEF Inv, TypeOK, GoneUsersCannotSignIn
<1>14. QED  BY <1>7, <1>8, <1>9, <1>10, <1>11, <1>12, <1>13 DEF Inv

LEMMA DeleteAccountCommitKeepsInv ==
    ASSUME Inv, NEW r \in Requests, DeleteAccountCommit(r)
    PROVE  Inv'
<1> DEFINE u == req[r].user
<1>1. Return(r) /\ UNCHANGED <<expired, made, mailed, used, jobs>>
  BY DEF DeleteAccountCommit, mails
<1>2. u \in Users /\ userLock[u] = r /\ passwordLock[u] = r /\ tokenLock[u] = r
  <2>1. Leaving(req[r]) /\ req[r].pc = "commit"
    BY DEF Leaving, DeleteAccountCommit, Doing
  <2>2. QED  BY <2>1, DeletionsHaveTheirFields DEF Inv, DeletionsHoldTheirRows
<1>3. /\ alive' = [alive EXCEPT ![u] = FALSE]
      /\ password' = [password EXCEPT ![u] = 0]
      /\ token' = [token EXCEPT ![u] = 0]
      /\ sessions' = Without(req[r].ended)
  BY DEF DeleteAccountCommit
<1>4. /\ req' \in [Requests -> RequestStates]
      /\ userLock' \in [Users -> Holders]
      /\ passwordLock' \in [Users -> Holders]
      /\ tokenLock' \in [Users -> Holders]
  BY <1>1, OthersHoldOn
<1>5. /\ \A q \in Requests : Updating(req'[q]) =>
            q # r /\ req'[q] = req[q] /\ req[q].user \in Users /\ req[q].token \in Tokens
      /\ \A q \in Requests : Leaving(req'[q]) =>
            q # r /\ req'[q] = req[q] /\ req[q].user \in Users
      /\ \A v \in Users : /\ userLock[v] # r => userLock'[v] = userLock[v]
                          /\ passwordLock[v] # r => passwordLock'[v] = passwordLock[v]
                          /\ tokenLock[v] # r => tokenLock'[v] = tokenLock[v]
  BY <1>1, OthersHoldOn
<1> HIDE DEF u
<1>6. /\ \A v \in Users : v # u =>
            alive'[v] = alive[v] /\ password'[v] = password[v] /\ token'[v] = token[v]
      /\ ~alive'[u] /\ password'[u] = 0 /\ token'[u] = 0
  BY <1>2, <1>3 DEF Inv, TypeOK
<1>7. TypeOK'
  <2>1. alive' \in [Users -> BOOLEAN]
    BY <1>3 DEF Inv, TypeOK
  <2>2. password' \in [Users -> Passwords \cup {0}] /\ token' \in [Users -> Tokens \cup {0}]
    BY <1>3 DEF Inv, TypeOK
  <2>3. sessions' \in [Sessions -> SessionRows \cup {NoRow}]
    BY <1>3, SweptSessionsAreSessions DEF Inv
  <2>4. QED  BY <1>1, <1>4, <2>1, <2>2, <2>3 DEF Inv, TypeOK
<1>8. ChangesHoldTheirRows'
  <2> SUFFICES ASSUME NEW q \in Requests, Updating(req'[q])
               PROVE  /\ req[q].token <= made
                      /\ req[q].token = token'[req[q].user] => password'[req[q].user] < MaxPasswords
                      /\ req[q].pc \in {"change", "sessions", "commit"} =>
                            tokenLock'[req[q].user] = q /\ token'[req[q].user] = req[q].token
                      /\ req[q].pc \in {"sessions", "commit"} =>
                            passwordLock'[req[q].user] = q /\ password'[req[q].user] # 0
    BY <1>1, <1>5 DEF ChangesHoldTheirRows
  <2>1. q # r /\ req'[q] = req[q] /\ req[q].user \in Users /\ req[q].token \in Tokens /\ Updating(req[q])
    BY <1>5
  <2>2. /\ req[q].token <= made
        /\ req[q].token = token[req[q].user] => password[req[q].user] < MaxPasswords
        /\ req[q].pc \in {"change", "sessions", "commit"} =>
              tokenLock[req[q].user] = q /\ token[req[q].user] = req[q].token
        /\ req[q].pc \in {"sessions", "commit"} =>
              passwordLock[req[q].user] = q /\ password[req[q].user] # 0
    BY <2>1 DEF Inv, ChangesHoldTheirRows
  <2>3. CASE req[q].user = u
    <3>1. req[q].token # 0
      BY <2>1 DEF Tokens
    <3>2. req[q].pc \notin {"change", "sessions", "commit"}
      BY <1>2, <2>1, <2>2, <2>3
    <3>3. QED  BY <1>6, <2>2, <2>3, <3>1, <3>2
  <2>4. CASE req[q].user # u
    BY <1>5, <1>6, <2>1, <2>2, <2>4
  <2>5. QED  BY <2>3, <2>4
<1>9. DeletionsHoldTheirRows'
  <2> SUFFICES ASSUME NEW q \in Requests, Leaving(req'[q])
               PROVE  /\ userLock'[req[q].user] = q /\ alive'[req[q].user]
                      /\ req[q].pc \in {"sessions", "token", "commit"} => passwordLock'[req[q].user] = q
                      /\ req[q].pc = "commit" => tokenLock'[req[q].user] = q
    BY <1>5 DEF DeletionsHoldTheirRows
  <2>1. req'[q] = req[q] /\ q # r /\ req[q].user \in Users
    BY <1>5
  <2>2. /\ userLock[req[q].user] = q /\ alive[req[q].user]
        /\ req[q].pc \in {"sessions", "token", "commit"} => passwordLock[req[q].user] = q
        /\ req[q].pc = "commit" => tokenLock[req[q].user] = q
    BY <2>1 DEF Inv, DeletionsHoldTheirRows
  <2>3. req[q].user # u
    BY <1>2, <2>1, <2>2
  <2>4. QED  BY <1>5, <1>6, <2>1, <2>2, <2>3
<1>10. JobsHoldTheirUsers' /\ JobsAreInOrder'
  <2> SUFFICES ASSUME NEW j \in Jobs, jobs[j] # NoRow, jobs[j].state = "replacing"
               PROVE  userLock'[jobs[j].user] = j /\ alive'[jobs[j].user]
    BY <1>1 DEF Inv, JobsHoldTheirUsers, JobsAreInOrder
  <2>1. jobs[j].user \in Users /\ userLock[jobs[j].user] = j /\ alive[jobs[j].user]
    BY DEF Inv, TypeOK, JobRows, JobsHoldTheirUsers
  <2>2. j # r
    BY HoldersAreApart
  <2>3. jobs[j].user # u
    BY <1>2, <2>1, <2>2
  <2>4. QED  BY <1>5, <1>6, <2>1, <2>2, <2>3
<1>11. TokensAreApart' /\ LinksReachTheMailbox'
  <2>1. \A v \in Users : token'[v] # 0 => v # u /\ token'[v] = token[v]
    BY <1>6
  <2>2. QED  BY <1>1, <2>1 DEF Inv, TokensAreApart, LinksReachTheMailbox
<1>12. EachLinkChangesOnce'
  <2> SUFFICES ASSUME NEW v \in Users, alive'[v]
               PROVE  password'[v] = 1 + Cardinality(used[v])
    BY <1>1 DEF EachLinkChangesOnce
  <2>1. v # u
    BY <1>6
  <2>2. QED  BY <1>6, <2>1 DEF Inv, EachLinkChangesOnce
<1>13. GoneUsersCannotSignIn'
  BY <1>6 DEF Inv, GoneUsersCannotSignIn
<1>14. QED  BY <1>7, <1>8, <1>9, <1>10, <1>11, <1>12, <1>13 DEF Inv

-----------------------------------------------------------------------------
(* The steps of time and of jobs. *)

LEMMA ExpireKeepsInv ==
    ASSUME Inv, NEW k \in Tokens, Expire(k)
    PROVE  Inv'
<1> USE DEF Expire, rows, locks
<1>1. TypeOK'
  BY DEF Inv, TypeOK
<1>2. ChangesHoldTheirRows' /\ DeletionsHoldTheirRows'
  BY DEF Inv, ChangesHoldTheirRows, DeletionsHoldTheirRows
<1>3. JobsHoldTheirUsers' /\ JobsAreInOrder' /\ TokensAreApart' /\ LinksReachTheMailbox'
  BY DEF Inv, JobsHoldTheirUsers, JobsAreInOrder, TokensAreApart, LinksReachTheMailbox
<1>4. alive' = alive /\ password' = password /\ used' = used /\ token' = token
  OBVIOUS
<1>5. EachLinkChangesOnce'
  BY <1>4, Zenon DEF Inv, EachLinkChangesOnce
<1>6. GoneUsersCannotSignIn'
  BY <1>4, Zenon DEF Inv, GoneUsersCannotSignIn
<1>7. QED  BY <1>1, <1>2, <1>3, <1>5, <1>6 DEF Inv

\* A job that makes no token keeps the one of its last attempt, and ends only
\* when its mail is out or its user gone.
LEMMA JobsKeepInv ==
    ASSUME Inv, NEW j \in Jobs, NEW row \in JobRows,
           jobs' = [jobs EXCEPT ![j] = row],
           UNCHANGED <<alive, password, token, sessions, expired, made, used, req>>,
           mailed \subseteq mailed', mailed' \subseteq 1..made,
           userLock' \in [Users -> Holders],
           passwordLock' \in [Users -> Holders],
           tokenLock' \in [Users -> Holders],
           \A u \in Users :
               /\ userLock[u] \notin {Nobody, j} => userLock'[u] = userLock[u]
               /\ passwordLock[u] \notin {Nobody, j} => passwordLock'[u] = passwordLock[u]
               /\ tokenLock[u] \notin {Nobody, j} => tokenLock'[u] = tokenLock[u],
           row.state = "replacing" => userLock'[row.user] = j /\ alive[row.user],
           row.state \in {"queued", "replacing", "sending"} => row.left > 0,
           row.state = "sending" => row.token # 0,
           \/ jobs[j] = NoRow /\ row.token = 0
           \/ jobs[j] # NoRow /\ row.token = jobs[j].token /\ row.user = jobs[j].user,
           row.state = "done" => row.token \in mailed' \/ ~alive[row.user]
    PROVE  Inv'
<1>1. /\ jobs'[j] = row /\ row # NoRow
      /\ \A i \in Jobs : i # j => jobs'[i] = jobs[i]
  BY NoRowIsNoRow DEF Inv, TypeOK
<1>2. alive' = alive /\ password' = password /\ used' = used /\ token' = token /\ made' = made /\ req' = req
  OBVIOUS
<1>3. TypeOK'
  BY DEF Inv, TypeOK
<1>4. ChangesHoldTheirRows'
  <2> SUFFICES ASSUME NEW q \in Requests, Updating(req[q])
               PROVE  /\ req[q].token <= made
                      /\ req[q].token = token[req[q].user] => password[req[q].user] < MaxPasswords
                      /\ req[q].pc \in {"change", "sessions", "commit"} =>
                            tokenLock'[req[q].user] = q /\ token[req[q].user] = req[q].token
                      /\ req[q].pc \in {"sessions", "commit"} =>
                            passwordLock'[req[q].user] = q /\ password[req[q].user] # 0
    BY <1>2 DEF ChangesHoldTheirRows
  <2>1. req[q].user \in Users
    BY UpdatesHaveTheirFields DEF Inv
  <2>2. QED  BY <2>1, HoldersAreApart DEF Inv, ChangesHoldTheirRows
<1>5. DeletionsHoldTheirRows'
  <2> SUFFICES ASSUME NEW q \in Requests, Leaving(req[q])
               PROVE  /\ userLock'[req[q].user] = q /\ alive[req[q].user]
                      /\ req[q].pc \in {"sessions", "token", "commit"} => passwordLock'[req[q].user] = q
                      /\ req[q].pc = "commit" => tokenLock'[req[q].user] = q
    BY <1>2 DEF DeletionsHoldTheirRows
  <2>1. req[q].user \in Users
    BY DeletionsHaveTheirFields DEF Inv
  <2>2. QED  BY <2>1, HoldersAreApart DEF Inv, DeletionsHoldTheirRows
<1>6. JobsHoldTheirUsers'
  <2> SUFFICES ASSUME NEW i \in Jobs, jobs'[i] # NoRow, jobs'[i].state = "replacing"
               PROVE  userLock'[jobs'[i].user] = i /\ alive[jobs'[i].user]
    BY <1>2 DEF JobsHoldTheirUsers
  <2>1. CASE i = j
    BY <1>1, <2>1
  <2>2. CASE i # j
    <3>1. jobs'[i] = jobs[i] /\ jobs[i].user \in Users
      BY <1>1, <2>2 DEF Inv, TypeOK, JobRows
    <3>2. QED  BY <2>2, <3>1, HoldersAreApart DEF Inv, JobsHoldTheirUsers
  <2>3. QED  BY <2>1, <2>2
<1>7. JobsAreInOrder'
  BY <1>1 DEF Inv, JobsAreInOrder
<1>8. \A i \in Jobs, u \in Users :
          token[u] # 0 /\ jobs'[i] # NoRow /\ jobs'[i].token = token[u] =>
              jobs[i] # NoRow /\ jobs[i].token = token[u] /\ jobs'[i].user = jobs[i].user
  BY <1>1
<1>9. \A i \in Jobs : jobs'[i] # NoRow => jobs'[i].token <= made
  <2> SUFFICES ASSUME NEW i \in Jobs, jobs'[i] # NoRow
               PROVE  jobs'[i].token <= made
    OBVIOUS
  <2>1. made \in Nat
    BY BoundsAreNumbers DEF Inv, TypeOK
  <2>2. QED  BY <1>1, <2>1 DEF Inv, TokensAreApart
<1>10. TokensAreApart'
  <2> SUFFICES ASSUME NEW u \in Users, token[u] # 0
               PROVE  /\ token[u] <= made /\ token[u] \notin used[u]
                      /\ \A v \in Users : token[v] = token[u] => v = u
                      /\ \A i \in Jobs : jobs'[i] # NoRow /\ jobs'[i].token = token[u] => jobs'[i].user = u
    BY <1>2, <1>9 DEF TokensAreApart
  <2>1. /\ token[u] <= made /\ token[u] \notin used[u]
        /\ \A v \in Users : token[v] = token[u] => v = u
        /\ \A i \in Jobs : jobs[i] # NoRow /\ jobs[i].token = token[u] => jobs[i].user = u
    BY DEF Inv, TokensAreApart
  <2>2. QED  BY <1>8, <2>1
<1>11. LinksReachTheMailbox'
  <2> SUFFICES ASSUME NEW u \in Users, token[u] # 0, token[u] \notin mailed'
               PROVE  \E i \in Jobs : jobs'[i] # NoRow /\ jobs'[i].token = token[u] /\ jobs'[i].state # "done"
    BY <1>2 DEF LinksReachTheMailbox
  <2>1. PICK i \in Jobs : jobs[i] # NoRow /\ jobs[i].token = token[u] /\ jobs[i].state # "done"
    BY DEF Inv, LinksReachTheMailbox
  <2>2. CASE i = j
    <3>1. row.token = token[u] /\ row.user = jobs[j].user
      BY <2>1, <2>2
    <3>2. row.user = u
      BY <2>1, <2>2, <3>1 DEF Inv, TokensAreApart
    <3>3. alive[u]
      BY DEF Inv, GoneUsersCannotSignIn
    <3>4. QED  BY <1>1, <3>1, <3>2, <3>3
  <2>3. CASE i # j
    BY <1>1, <2>1, <2>3
  <2>4. QED  BY <2>2, <2>3
<1>12. EachLinkChangesOnce /\ GoneUsersCannotSignIn
  BY DEF Inv
<1>13. EachLinkChangesOnce' /\ GoneUsersCannotSignIn'
  <2>1. EachLinkChangesOnce'
    BY <1>2, <1>12, Zenon DEF EachLinkChangesOnce
  <2>2. ASSUME NEW u \in Users, ~alive[u]
        PROVE  password[u] = 0 /\ token[u] = 0
    BY <1>12, <2>2 DEF GoneUsersCannotSignIn
  <2>3. ASSUME NEW u \in Users, ~alive'[u]
        PROVE  password'[u] = 0 /\ token'[u] = 0
    BY <1>2, <2>2, <2>3
  <2>4. GoneUsersCannotSignIn'
    BY <2>3 DEF GoneUsersCannotSignIn
  <2>5. QED  BY <2>1, <2>4
<1>14. QED  BY <1>3, <1>4, <1>5, <1>6, <1>7, <1>10, <1>11, <1>13 DEF Inv

LEMMA CreatePasswordResetKeepsInv ==
    ASSUME Inv, NEW j \in Jobs, NEW u \in Users, CreatePasswordReset(j, u)
    PROVE  Inv'
<1> DEFINE row == [user |-> u, state |-> "queued", left |-> MaxAttempts, token |-> 0]
<1>1. /\ jobs[j] = NoRow /\ jobs' = [jobs EXCEPT ![j] = row]
      /\ UNCHANGED <<alive, password, token, sessions, expired, made, mailed, used, userLock, passwordLock, tokenLock, req>>
  BY DEF CreatePasswordReset, rows, mails, locks
<1>2. row \in JobRows /\ row.left > 0 /\ row.token = 0 /\ row.state = "queued"
  BY BoundsAreNumbers DEF JobRows
<1> HIDE DEF row
<1>3. QED  BY <1>1, <1>2, JobsKeepInv DEF Inv, TypeOK

\* What is known of a job under way.
LEMMA JobsHaveTheirFields ==
    ASSUME Inv, NEW j \in Jobs, jobs[j] # NoRow,
           jobs[j].state \in {"queued", "replacing", "sending"}
    PROVE  /\ jobs[j] \in JobRows /\ jobs[j].user \in Users
           /\ jobs[j].left \in 1..MaxAttempts /\ jobs[j].token \in 0..MaxTokens
BY BoundsAreNumbers DEF Inv, TypeOK, JobRows, JobsAreInOrder

LEMMA LockUserKeepsInv ==
    ASSUME Inv, NEW j \in Jobs, LockUser(j)
    PROVE  Inv'
<1> DEFINE u == jobs[j].user
           state == IF alive[u] THEN "replacing" ELSE "done"
           row == [jobs[j] EXCEPT !.state = state]
<1>1. /\ jobs[j] # NoRow /\ jobs[j].state = "queued" /\ userLock[u] = Nobody
      /\ jobs' = [jobs EXCEPT ![j] = row]
      /\ userLock' = IF alive[u] THEN [userLock EXCEPT ![u] = j] ELSE userLock
      /\ UNCHANGED <<alive, password, token, sessions, expired, made, mailed, used, passwordLock, tokenLock, req>>
  BY DEF LockUser, JobIs, rows, mails
<1>2. /\ row \in JobRows /\ row.user = u /\ row.token = jobs[j].token /\ row.left > 0
      /\ row.state = state /\ u \in Users
  BY <1>1, JobsHaveTheirFields DEF JobRows
<1>3. /\ row.user = jobs[j].user
      /\ row.state = "replacing" => userLock'[row.user] = j /\ alive[row.user]
      /\ row.state = "done" => ~alive[row.user]
      /\ row.state # "sending"
  BY <1>1, <1>2 DEF Inv, TypeOK
<1>4. /\ userLock' \in [Users -> Holders]
      /\ \A v \in Users : userLock[v] \notin {Nobody, j} => userLock'[v] = userLock[v]
  BY <1>1, <1>2, HoldersAreApart DEF Inv, TypeOK
<1> HIDE DEF row, state, u
<1>5. QED  BY <1>1, <1>2, <1>3, <1>4, JobsKeepInv DEF Inv, TypeOK

LEMMA SendResetKeepsInv ==
    ASSUME Inv, NEW j \in Jobs, SendReset(j)
    PROVE  Inv'
<1> DEFINE row == [jobs[j] EXCEPT !.state = "done"]
<1>1. /\ jobs[j] # NoRow /\ jobs[j].state = "sending"
      /\ mailed' = mailed \cup {jobs[j].token}
      /\ jobs' = [jobs EXCEPT ![j] = row]
      /\ UNCHANGED <<alive, password, token, sessions, expired, made, used, userLock, passwordLock, tokenLock, req>>
  BY DEF SendReset, JobIs, Deliver, rows, locks
<1>2. row \in JobRows /\ row.user = jobs[j].user /\ row.token = jobs[j].token /\ row.state = "done"
  BY <1>1, JobsHaveTheirFields DEF JobRows
<1>3. mailed \subseteq mailed' /\ mailed' \subseteq 1..made
  <2>1. jobs[j].token \in 1..made
    BY <1>1, JobsHaveTheirFields, BoundsAreNumbers DEF Inv, JobsAreInOrder, TokensAreApart, TypeOK
  <2>2. QED  BY <1>1, <2>1 DEF Inv, TypeOK
<1>4. row.token \in mailed'
  BY <1>1, <1>2
<1> HIDE DEF row
<1>5. QED  BY <1>1, <1>2, <1>3, <1>4, JobsKeepInv DEF Inv, TypeOK

LEMMA JobFailsKeepsInv ==
    ASSUME Inv, NEW j \in Jobs, JobFails(j)
    PROVE  Inv'
<1> DEFINE state == IF jobs[j].left > 1 THEN "queued" ELSE "discarded"
           row == [jobs[j] EXCEPT !.state = state, !.left = @ - 1]
<1>1. /\ jobs[j] # NoRow /\ jobs[j].state \in {"queued", "replacing", "sending"}
      /\ \/ mailed' = mailed
         \/ jobs[j].state = "sending" /\ mailed' = mailed \cup {jobs[j].token}
      /\ jobs' = [jobs EXCEPT ![j] = row]
      /\ FreeLocks(j)
      /\ UNCHANGED <<alive, password, token, sessions, expired, made, used, req>>
  BY DEF JobFails, JobIs, Deliver, Failed, rows
<1>2. /\ row \in JobRows /\ row.user = jobs[j].user /\ row.token = jobs[j].token
      /\ row.state \in {"queued", "discarded"}
      /\ row.state = "queued" => row.left > 0
  <2>1. jobs[j].left \in 1..MaxAttempts /\ jobs[j] \in JobRows
    BY <1>1, JobsHaveTheirFields
  <2>2. jobs[j].left - 1 \in 0..MaxAttempts /\ (jobs[j].left > 1 => jobs[j].left - 1 > 0)
    BY <2>1, BoundsAreNumbers
  <2>3. QED  BY <2>1, <2>2 DEF JobRows
<1>3. mailed \subseteq mailed' /\ mailed' \subseteq 1..made
  <2>1. CASE mailed' = mailed
    BY <2>1 DEF Inv, TypeOK
  <2>2. CASE jobs[j].state = "sending" /\ mailed' = mailed \cup {jobs[j].token}
    <3>1. jobs[j].token \in 1..made
      BY <1>1, <2>2, JobsHaveTheirFields, BoundsAreNumbers DEF Inv, JobsAreInOrder, TokensAreApart, TypeOK
    <3>2. QED  BY <2>2, <3>1 DEF Inv, TypeOK
  <2>3. QED  BY <1>1, <2>1, <2>2
<1>4. /\ userLock' \in [Users -> Holders]
      /\ passwordLock' \in [Users -> Holders]
      /\ tokenLock' \in [Users -> Holders]
      /\ \A u \in Users : /\ userLock[u] # j => userLock'[u] = userLock[u]
                          /\ passwordLock[u] # j => passwordLock'[u] = passwordLock[u]
                          /\ tokenLock[u] # j => tokenLock'[u] = tokenLock[u]
  BY <1>1, FreedLocks DEF Inv
<1> HIDE DEF row
<1>5. QED  BY <1>1, <1>2, <1>3, <1>4, JobsKeepInv

LEMMA ReplaceTokenKeepsInv ==
    ASSUME Inv, NEW j \in Jobs, ReplaceToken(j)
    PROVE  Inv'
<1> DEFINE u == jobs[j].user
           row == [jobs[j] EXCEPT !.state = "sending", !.token = made + 1]
<1>1. /\ jobs[j] # NoRow /\ jobs[j].state = "replacing" /\ made < MaxTokens
      /\ tokenLock[u] = Nobody
      /\ token' = [token EXCEPT ![u] = made + 1]
      /\ made' = made + 1
      /\ jobs' = [jobs EXCEPT ![j] = row]
      /\ FreeLocks(j)
      /\ UNCHANGED <<alive, password, sessions, expired, mailed, used, req>>
  BY DEF ReplaceToken, JobIs
<1>2. made \in Nat /\ MaxTokens \in Nat /\ made + 1 \in Tokens /\ made' \in 0..MaxTokens
  BY <1>1, BoundsAreNumbers DEF Inv, TypeOK, Tokens
<1>3. row \in JobRows /\ row.user = u /\ row.state = "sending" /\ row.token = made + 1 /\ row.left > 0
  <2>1. jobs[j] \in JobRows /\ jobs[j].left \in 1..MaxAttempts /\ made + 1 \in 0..MaxTokens
    BY <1>1, <1>2, JobsHaveTheirFields DEF Tokens
  <2>2. jobs[j].left > 0
    BY <2>1, BoundsAreNumbers
  <2>3. QED  BY <2>1, <2>2 DEF JobRows
<1>4. u \in Users /\ alive[u]
  BY <1>1, JobsHaveTheirFields DEF Inv, JobsHoldTheirUsers
<1>5. /\ userLock' \in [Users -> Holders]
      /\ passwordLock' \in [Users -> Holders]
      /\ tokenLock' \in [Users -> Holders]
      /\ \A v \in Users : /\ userLock[v] # j => userLock'[v] = userLock[v]
                          /\ passwordLock[v] # j => passwordLock'[v] = passwordLock[v]
                          /\ tokenLock[v] # j => tokenLock'[v] = tokenLock[v]
  BY <1>1, FreedLocks DEF Inv
<1> HIDE DEF row, u
<1>6. /\ token'[u] = made + 1
      /\ \A v \in Users : v # u => token'[v] = token[v]
  BY <1>1, <1>4 DEF Inv, TypeOK
<1>7. /\ jobs'[j] = row
      /\ \A i \in Jobs : i # j => jobs'[i] = jobs[i]
  BY <1>1 DEF Inv, TypeOK
<1>8. TypeOK'
  <2>1. token' \in [Users -> Tokens \cup {0}] /\ jobs' \in [Jobs -> JobRows \cup {NoRow}]
    BY <1>1, <1>2, <1>3 DEF Inv, TypeOK
  <2>2. 1..made \subseteq 1..made'
    BY <1>1, <1>2
  <2>3. expired' \cup mailed' \subseteq 1..made' /\ used' \in [Users -> SUBSET (1..made')]
    BY <1>1, <2>2 DEF Inv, TypeOK
  <2>4. QED  BY <1>1, <1>2, <1>5, <2>1, <2>3 DEF Inv, TypeOK
<1>9. ChangesHoldTheirRows'
  <2> SUFFICES ASSUME NEW q \in Requests, Updating(req[q])
               PROVE  /\ req[q].token <= made'
                      /\ req[q].token = token'[req[q].user] => password[req[q].user] < MaxPasswords
                      /\ req[q].pc \in {"change", "sessions", "commit"} =>
                            tokenLock'[req[q].user] = q /\ token'[req[q].user] = req[q].token
                      /\ req[q].pc \in {"sessions", "commit"} =>
                            passwordLock'[req[q].user] = q /\ password[req[q].user] # 0
    BY <1>1 DEF ChangesHoldTheirRows
  <2>1. req[q].user \in Users /\ req[q].token \in Tokens
    BY UpdatesHaveTheirFields DEF Inv
  <2>2. /\ req[q].token <= made
        /\ req[q].token = token[req[q].user] => password[req[q].user] < MaxPasswords
        /\ req[q].pc \in {"change", "sessions", "commit"} =>
              tokenLock[req[q].user] = q /\ token[req[q].user] = req[q].token
        /\ req[q].pc \in {"sessions", "commit"} =>
              passwordLock[req[q].user] = q /\ password[req[q].user] # 0
    BY DEF Inv, ChangesHoldTheirRows
  <2>3. req[q].token <= made' /\ req[q].token # made + 1
    BY <1>1, <1>2, <2>1, <2>2 DEF Tokens
  <2>4. q # j /\ q # Nobody
    BY HoldersAreApart
  <2>5. CASE req[q].user = u
    <3>1. req[q].pc \notin {"change", "sessions", "commit"}
      BY <1>1, <2>2, <2>4, <2>5
    <3>2. QED  BY <1>6, <2>3, <2>5, <3>1
  <2>6. CASE req[q].user # u
    BY <1>5, <1>6, <2>1, <2>2, <2>3, <2>4, <2>6
  <2>7. QED  BY <2>5, <2>6
<1>10. DeletionsHoldTheirRows'
  <2> SUFFICES ASSUME NEW q \in Requests, Leaving(req[q])
               PROVE  /\ userLock'[req[q].user] = q /\ alive[req[q].user]
                      /\ req[q].pc \in {"sessions", "token", "commit"} => passwordLock'[req[q].user] = q
                      /\ req[q].pc = "commit" => tokenLock'[req[q].user] = q
    BY <1>1 DEF DeletionsHoldTheirRows
  <2>1. req[q].user \in Users
    BY DeletionsHaveTheirFields DEF Inv
  <2>2. QED  BY <1>5, <2>1, HoldersAreApart DEF Inv, DeletionsHoldTheirRows
<1>11. JobsHoldTheirUsers'
  <2> SUFFICES ASSUME NEW i \in Jobs, jobs'[i] # NoRow, jobs'[i].state = "replacing"
               PROVE  userLock'[jobs'[i].user] = i /\ alive[jobs'[i].user]
    BY <1>1 DEF JobsHoldTheirUsers
  <2>1. i # j /\ jobs'[i] = jobs[i]
    BY <1>3, <1>7
  <2>2. jobs[i].user \in Users
    BY <2>1 DEF Inv, TypeOK, JobRows
  <2>3. QED  BY <1>5, <2>1, <2>2 DEF Inv, JobsHoldTheirUsers
<1>12. JobsAreInOrder'
  <2>1. row.token # 0
    BY <1>2, <1>3
  <2>2. QED  BY <1>3, <1>7, <2>1 DEF Inv, JobsAreInOrder
<1>13. /\ \A i \in Jobs : jobs[i] # NoRow => jobs[i].token <= made /\ jobs[i].token \in Nat
       /\ \A v \in Users : token[v] # 0 => token[v] <= made /\ token[v] \in Nat
  BY DEF Inv, TokensAreApart, TypeOK, JobRows, Tokens
<1>14. TokensAreApart'
  <2>1. \A i \in Jobs : jobs'[i] # NoRow => jobs'[i].token <= made'
    BY <1>1, <1>2, <1>3, <1>7, <1>13
  <2>2. ASSUME NEW v \in Users, token'[v] # 0
        PROVE  /\ token'[v] <= made' /\ token'[v] \notin used[v]
               /\ \A w \in Users : token'[w] = token'[v] => w = v
               /\ \A i \in Jobs : jobs'[i] # NoRow /\ jobs'[i].token = token'[v] => jobs'[i].user = v
    <3>1. CASE v = u
      <4>1. token'[v] = made + 1 /\ made + 1 # 0 /\ token'[v] <= made'
        BY <1>1, <1>2, <1>6, <3>1
      <4>2. made + 1 \notin used[v]
        BY <1>2 DEF Inv, TypeOK
      <4>3. ASSUME NEW w \in Users, w # u
            PROVE  token'[w] # made + 1
        BY <1>2, <1>6, <1>13, <4>3
      <4>4. ASSUME NEW i \in Jobs, i # j, jobs[i] # NoRow
            PROVE  jobs[i].token # made + 1
        BY <1>2, <1>13, <4>4
      <4>5. QED  BY <1>3, <1>7, <3>1, <4>1, <4>2, <4>3, <4>4
    <3>2. CASE v # u
      <4>1. token'[v] = token[v] /\ token[v] # 0 /\ token[v] <= made /\ token[v] # made + 1 /\ token[v] <= made'
        BY <1>1, <1>2, <1>6, <1>13, <2>2, <3>2
      <4>2. /\ token[v] \notin used[v]
            /\ \A w \in Users : token[w] = token[v] => w = v
            /\ \A i \in Jobs : jobs[i] # NoRow /\ jobs[i].token = token[v] => jobs[i].user = v
        BY <4>1 DEF Inv, TokensAreApart
      <4>3. QED  BY <1>3, <1>6, <1>7, <4>1, <4>2
    <3>3. QED  BY <3>1, <3>2
  <2>3. QED  BY <1>1, <2>1, <2>2 DEF TokensAreApart
<1>15. LinksReachTheMailbox'
  <2> SUFFICES ASSUME NEW v \in Users, token'[v] # 0, token'[v] \notin mailed
               PROVE  \E i \in Jobs : jobs'[i] # NoRow /\ jobs'[i].token = token'[v] /\ jobs'[i].state # "done"
    BY <1>1 DEF LinksReachTheMailbox
  <2>1. CASE v = u
    <3>1. row # NoRow
      BY <1>3, NoRowIsNoRow
    <3>2. QED  BY <1>3, <1>6, <1>7, <2>1, <3>1
  <2>2. CASE v # u
    <3>1. token'[v] = token[v]
      BY <1>6, <2>2
    <3>2. PICK i \in Jobs : jobs[i] # NoRow /\ jobs[i].token = token[v] /\ jobs[i].state # "done"
      BY <3>1 DEF Inv, LinksReachTheMailbox
    <3>3. jobs[i].user = v
      BY <3>1, <3>2 DEF Inv, TokensAreApart
    <3>4. i # j
      BY <2>2, <3>3 DEF u
    <3>5. QED  BY <1>7, <3>1, <3>2, <3>4
  <2>3. QED  BY <2>1, <2>2
<1>16. EachLinkChangesOnce'
  <2>1. alive' = alive /\ password' = password /\ used' = used
    BY <1>1
  <2>2. EachLinkChangesOnce
    BY DEF Inv
  <2>3. QED  BY <2>1, <2>2, Zenon DEF EachLinkChangesOnce
<1>17. GoneUsersCannotSignIn'
  <2> SUFFICES ASSUME NEW v \in Users, ~alive[v]
               PROVE  password[v] = 0 /\ token'[v] = 0
    BY <1>1 DEF GoneUsersCannotSignIn
  <2>1. v # u
    BY <1>4
  <2>2. QED  BY <1>6, <2>1 DEF Inv, GoneUsersCannotSignIn
<1>18. QED  BY <1>8, <1>9, <1>10, <1>11, <1>12, <1>14, <1>15, <1>16, <1>17 DEF Inv

-----------------------------------------------------------------------------
(* The invariant, and what follows from it. *)

LEMMA InitHasInv ==
    ASSUME Init
    PROVE  Inv
<1> USE DEF Init
<1>1. TypeOK
  BY BoundsAreNumbers DEF TypeOK, Tokens, Passwords, RequestStates, Holders
<1>2. \A r \in Requests : ~Updating(req[r]) /\ ~Leaving(req[r])
  BY DEF Updating, Leaving, Idle
<1>3. ChangesHoldTheirRows /\ DeletionsHoldTheirRows
  BY <1>2 DEF ChangesHoldTheirRows, DeletionsHoldTheirRows
<1>4. JobsHoldTheirUsers /\ JobsAreInOrder /\ TokensAreApart /\ LinksReachTheMailbox
  BY DEF JobsHoldTheirUsers, JobsAreInOrder, TokensAreApart, LinksReachTheMailbox
<1>5. EachLinkChangesOnce
  BY FS_EmptySet DEF EachLinkChangesOnce
<1>6. GoneUsersCannotSignIn
  BY DEF GoneUsersCannotSignIn
<1>7. QED  BY <1>1, <1>3, <1>4, <1>5, <1>6 DEF Inv

LEMMA NextKeepsInv ==
    ASSUME Inv, [Next]_vars
    PROVE  Inv'
<1>1. ASSUME NEW r \in Requests, BeginRequest(r)
      PROVE  Inv'
  BY <1>1, CheckCredentialsKeepsInv, UpdatePasswordBeginKeepsInv, DeleteAccountBeginKeepsInv
     DEF BeginRequest
<1>2. ASSUME NEW r \in Requests, Continue(r)
      PROVE  Inv'
  BY <1>2, CreateSessionKeepsInv, UpdatePasswordOpenKeepsInv, DeleteLiveTokenKeepsInv,
     TakePasswordKeepsInv, EndSessionsKeepsInv, UpdatePasswordCommitKeepsInv,
     DeleteTokensKeepsInv, DeleteAccountCommitKeepsInv
     DEF Continue
<1>3. ASSUME NEW r \in Requests, Abort(r)
      PROVE  Inv'
  BY <1>3, RefuseKeepsInv DEF Abort
<1>4. ASSUME NEW j \in Jobs, NEW u \in Users, CreatePasswordReset(j, u)
      PROVE  Inv'
  BY <1>4, CreatePasswordResetKeepsInv
<1>5. ASSUME NEW j \in Jobs, Work(j) \/ JobFails(j)
      PROVE  Inv'
  BY <1>5, LockUserKeepsInv, ReplaceTokenKeepsInv, SendResetKeepsInv, JobFailsKeepsInv DEF Work
<1>6. ASSUME NEW s \in Sessions, DeleteSession(s)
      PROVE  Inv'
  BY <1>6, DeleteSessionKeepsInv
<1>7. ASSUME NEW k \in Tokens, Expire(k)
      PROVE  Inv'
  BY <1>7, ExpireKeepsInv
<1>8. CASE UNCHANGED vars
  <2>1. sessions' = sessions /\ UNCHANGED <<alive, password, token, mails, jobs>> /\ UNCHANGED <<locks, req>>
    BY <1>8 DEF vars, rows
  <2>2. sessions \in [Sessions -> SessionRows \cup {NoRow}]
    BY DEF Inv, TypeOK
  <2>3. QED  BY <2>1, <2>2, SessionsKeepInv
<1>9. QED  BY <1>1, <1>2, <1>3, <1>4, <1>5, <1>6, <1>7, <1>8 DEF Next

\* The invariant is one of the specification.
THEOREM InvHolds == Spec => []Inv
<1>1. Init => Inv
  BY InitHasInv
<1>2. Inv /\ [Next]_vars => Inv'
  BY NextKeepsInv
<1>3. QED  BY <1>1, <1>2, PTL DEF Spec

\* The variables keep their types.
THEOREM TypesHold == Spec => []TypeOK
<1>1. Inv => TypeOK
  BY DEF Inv
<1>2. QED  BY <1>1, InvHolds, PTL

\* The link of a mail changes the password once, whoever sends it in.
THEOREM LinksChangeOnce == Spec => []EachLinkChangesOnce
<1>1. Inv => EachLinkChangesOnce
  BY DEF Inv
<1>2. QED  BY <1>1, InvHolds, PTL

\* Jobs that are run again leave no user with a link that no mail has.
THEOREM StoredLinksAreSent == Spec => []LinksReachTheMailbox
<1>1. Inv => LinksReachTheMailbox
  BY DEF Inv
<1>2. QED  BY <1>1, InvHolds, PTL

\* A deletion leaves nothing to sign in with, and no job brings it back.
THEOREM GoneUsersStayOut == Spec => []GoneUsersCannotSignIn
<1>1. Inv => GoneUsersCannotSignIn
  BY DEF Inv
<1>2. QED  BY <1>1, InvHolds, PTL

\* Passwords change by the link that is stored at that instant, and spend it.
THEOREM ChangesSpendTheStoredLink == Spec => TheStoredLinkChanges
<1>1. ASSUME Inv, [Next]_vars
      PROVE  [\A u \in Users :
                 used'[u] # used[u] =>
                     /\ token[u] # 0 /\ used'[u] = used[u] \cup {token[u]}
                     /\ token'[u] = 0]_vars
  <2> SUFFICES ASSUME NEW u \in Users, used'[u] # used[u]
               PROVE  /\ token[u] # 0 /\ used'[u] = used[u] \cup {token[u]}
                      /\ token'[u] = 0
    OBVIOUS
  <2>1. used' # used
    OBVIOUS
  <2>2. PICK r \in Requests : UpdatePasswordCommit(r)
    BY <1>1, <2>1 DEF Next, vars, mails, BeginRequest, Continue, Abort, Refuse, Return, GoTo, Work,
       CheckCredentials, UpdatePasswordBegin, DeleteAccountBegin, CreateSession, UpdatePasswordOpen,
       DeleteLiveToken, TakePassword, EndSessions, DeleteTokens, DeleteAccountCommit,
       CreatePasswordReset, LockUser, ReplaceToken, SendReset, JobFails, DeleteSession, Expire
  <2>3. Updating(req[r]) /\ req[r].pc = "commit"
    BY <2>2 DEF Updating, UpdatePasswordCommit, Doing
  <2>4. /\ req[r].user \in Users /\ req[r].token \in Tokens
        /\ token[req[r].user] = req[r].token
    BY <1>1, <2>3, UpdatesHaveTheirFields DEF Inv, ChangesHoldTheirRows
  <2>5. u = req[r].user
    BY <1>1, <2>2, <2>4 DEF UpdatePasswordCommit, Inv, TypeOK
  <2>6. QED  BY <1>1, <2>2, <2>4, <2>5 DEF UpdatePasswordCommit, Inv, TypeOK, Tokens
<1>2. QED  BY <1>1, InvHolds, PTL DEF Spec, TheStoredLinkChanges

-----------------------------------------------------------------------------
(* Who waits for whom. *)

Actors == Requests \cup Jobs

\* The row that h has to take next is held by q; the row of a session refers
\* to that of its user.
Awaits(h, q) ==
    \/ /\ h \in Requests
       /\ \/ /\ Doing(h, "update", "use") /\ token[req[h].user] = req[h].token /\ req[h].inTime
             /\ tokenLock[req[h].user] = q
          \/ /\ req[h].pc = "change" /\ password[req[h].user] # 0
             /\ passwordLock[req[h].user] = q
          \/ Doing(h, "leave", "token") /\ tokenLock[req[h].user] = q
          \/ req[h].pc = "signin" /\ q \in Requests /\ Leaving(req[q]) /\ req[q].user = req[h].user
    \/ /\ h \in Jobs
       /\ \/ JobIs(h, "queued") /\ userLock[jobs[h].user] = q
          \/ JobIs(h, "replacing") /\ tokenLock[jobs[h].user] = q

\* Requests and jobs wait in a circle only around a change of password and a
\* deletion that hold what the other needs.
CirclesAreDeadlocks ==
    \A circle \in (SUBSET Actors) \ {{}} :
        (\A h \in circle : \E q \in circle : Awaits(h, q)) => \E r \in circle \cap Requests : InDeadlock(r)

HoldsUser(h, u) ==
    \/ h \in Requests /\ Leaving(req[h]) /\ req[h].user = u
    \/ h \in Jobs /\ JobIs(h, "replacing") /\ jobs[h].user = u

HoldsPassword(h, u) ==
    h \in Requests /\ req[h].pc \in {"sessions", "token", "commit"} /\ req[h].user = u

HoldsToken(h, u) ==
    /\ h \in Requests
    /\ \/ Updating(req[h]) /\ req[h].pc \in {"change", "sessions", "commit"}
       \/ Leaving(req[h]) /\ req[h].pc = "commit"
    /\ req[h].user = u

\* Rows are held by nobody else than those who took them and have not finished.
FitsItsLocks(h) ==
    \A u \in Users :
        /\ userLock[u] = h => HoldsUser(h, u)
        /\ passwordLock[u] = h => HoldsPassword(h, u)
        /\ tokenLock[u] = h => HoldsToken(h, u)

WaitInv == \A h \in Actors : FitsItsLocks(h)

LEMMA RequestsDoOneThing ==
    ASSUME TypeOK, NEW r \in Requests
    PROVE  /\ Updating(req[r]) \/ Leaving(req[r]) => req[r].user \in Users
           /\ req[r].pc \notin {"idle", "signin"} <=> Updating(req[r]) \/ Leaving(req[r])
           /\ ~(Updating(req[r]) /\ Leaving(req[r]))
BY DEF TypeOK, RequestStates, Idle, Updating, Leaving

\* In a circle everybody waits, so the row of a token is held by a change of
\* password that waits for the password, and that by a deletion that waits for
\* the token.
LEMMA CirclesHaveAKnot == Inv /\ WaitInv => CirclesAreDeadlocks
<1> SUFFICES ASSUME Inv, WaitInv, NEW circle \in SUBSET Actors, circle # {},
                    \A h \in circle : \E q \in circle : Awaits(h, q)
             PROVE  \E r \in circle \cap Requests : InDeadlock(r)
  BY DEF CirclesAreDeadlocks
<1>1. ASSUME NEW h \in circle
      PROVE  ~(h \in Requests /\ req[h].pc \in {"idle", "sessions", "commit"})
  BY HoldersAreApart DEF Awaits, Doing
<1>2. ASSUME NEW u \in Users, tokenLock[u] \in circle
      PROVE  \E r \in circle \cap Requests : InDeadlock(r)
  <2>1. PICK r \in circle : r = tokenLock[u]
    BY <1>2
  <2>2. r \in Requests /\ req[r].pc = "change" /\ req[r].op = "update" /\ req[r].user = u
    BY <1>1, <2>1 DEF WaitInv, FitsItsLocks, HoldsToken, Updating
  <2>3. PICK q \in circle : passwordLock[u] = q
    BY <2>2, HoldersAreApart DEF Awaits, Doing
  <2>4. q \in Requests /\ req[q].pc = "token" /\ req[q].user = u
    BY <1>1, <2>3 DEF WaitInv, FitsItsLocks, HoldsPassword
  <2>5. Doing(q, "leave", "token")
    BY <2>4, RequestsDoOneThing DEF Inv, Doing, Updating, Leaving
  <2>6. QED  BY <2>1, <2>2, <2>3, <2>4, <2>5 DEF InDeadlock
<1>3. ASSUME NEW u \in Users, passwordLock[u] \in circle
      PROVE  \E v \in Users : tokenLock[v] \in circle
  <2>1. PICK q \in circle : q = passwordLock[u]
    BY <1>3
  <2>2. q \in Requests /\ req[q].pc = "token" /\ req[q].user = u
    BY <1>1, <2>1 DEF WaitInv, FitsItsLocks, HoldsPassword
  <2>3. QED  BY <2>2, HoldersAreApart DEF Awaits, Doing
<1>4. ASSUME NEW h \in circle, h \in Requests, Updating(req[h]) \/ Leaving(req[h])
      PROVE  \E v \in Users : tokenLock[v] \in circle \/ passwordLock[v] \in circle
  <2>1. req[h].user \in Users /\ req[h].pc # "signin"
    BY <1>4, RequestsDoOneThing DEF Inv
  <2>2. QED  BY <1>4, <2>1, HoldersAreApart DEF Awaits
<1>5. ASSUME NEW h \in circle
      PROVE  \E v \in Users : tokenLock[v] \in circle \/ passwordLock[v] \in circle
  <2>1. CASE h \in Requests
    <3>1. CASE req[h].pc = "signin"
      <4>1. PICK q \in circle : q \in Requests /\ Leaving(req[q])
        BY <2>1, <3>1, HoldersAreApart DEF Awaits, Doing
      <4>2. QED  BY <1>4, <4>1
    <3>2. QED  BY <1>1, <1>4, <2>1, <3>1, RequestsDoOneThing DEF Inv
  <2>2. CASE h \in Jobs
    <3>1. jobs[h] # NoRow /\ jobs[h].user \in Users
      BY <2>2, HoldersAreApart DEF Awaits, JobIs, Inv, TypeOK, JobRows
    <3>2. CASE tokenLock[jobs[h].user] \in circle
      BY <3>1, <3>2
    <3>3. CASE JobIs(h, "queued") /\ userLock[jobs[h].user] \in circle
      <4>1. PICK q \in circle : userLock[jobs[h].user] = q
        BY <3>3
      <4>2. HoldsUser(q, jobs[h].user)
        BY <3>1, <4>1 DEF WaitInv, FitsItsLocks
      <4>3. CASE q \in Requests /\ Leaving(req[q])
        BY <1>4, <4>3
      <4>4. CASE q \in Jobs /\ JobIs(q, "replacing") /\ jobs[q].user = jobs[h].user
        <5>1. tokenLock[jobs[q].user] \in circle
          BY <4>4, HoldersAreApart DEF Awaits, JobIs
        <5>2. QED  BY <3>1, <4>4, <5>1
      <4>5. QED  BY <4>2, <4>3, <4>4 DEF HoldsUser
    <3>4. QED  BY <2>2, <3>2, <3>3, HoldersAreApart DEF Awaits
  <2>3. QED  BY <2>1, <2>2 DEF Actors
<1>6. PICK h \in circle : TRUE
  OBVIOUS
<1>7. QED  BY <1>2, <1>3, <1>5, <1>6

\* A step of h takes rows from nobody and moves nobody else.
LEMMA StepsKeepWaitInv ==
    ASSUME WaitInv, NEW h \in Actors,
           \A q \in Requests : q # h => req'[q] = req[q],
           \A j \in Jobs : j # h => jobs'[j] = jobs[j],
           \A q \in Actors, u \in Users : q # h =>
               /\ userLock'[u] = q => userLock[u] = q
               /\ passwordLock'[u] = q => passwordLock[u] = q
               /\ tokenLock'[u] = q => tokenLock[u] = q,
           FitsItsLocks(h)'
    PROVE  WaitInv'
<1> SUFFICES ASSUME NEW q \in Actors, q # h
             PROVE  FitsItsLocks(q)'
  BY DEF WaitInv
<1>1. FitsItsLocks(q)
  BY DEF WaitInv
<1>2. QED  BY <1>1 DEF FitsItsLocks, HoldsUser, HoldsPassword, HoldsToken, JobIs, Actors

\* Who gives its rows back holds none.
LEMMA ReturnsKeepWaitInv ==
    ASSUME WaitInv, NEW h \in Actors, FreeLocks(h),
           \A q \in Requests : q # h => req'[q] = req[q],
           \A j \in Jobs : j # h => jobs'[j] = jobs[j]
    PROVE  WaitInv'
<1>1. h # Nobody
  BY HoldersAreApart DEF Actors
<1>2. \A q \in Actors, u \in Users :
          /\ userLock'[u] = q => q # h /\ userLock[u] = q
          /\ passwordLock'[u] = q => q # h /\ passwordLock[u] = q
          /\ tokenLock'[u] = q => q # h /\ tokenLock[u] = q
  BY <1>1, HoldersAreApart DEF FreeLocks, Unlocked, Actors
<1>3. FitsItsLocks(h)'
  BY <1>2 DEF FitsItsLocks
<1>4. QED  BY <1>2, <1>3, StepsKeepWaitInv

\* A request moves on and keeps the rows it holds.
LEMMA MovesKeepWaitInv ==
    ASSUME Inv, WaitInv, NEW r \in Requests, NEW state, GoTo(r, state),
           \A q \in Actors, u \in Users : q # r =>
               /\ userLock'[u] = q => userLock[u] = q
               /\ passwordLock'[u] = q => passwordLock[u] = q
               /\ tokenLock'[u] = q => tokenLock[u] = q,
           \A u \in Users :
               /\ userLock'[u] = r => state.user = u /\ Leaving(state)
               /\ passwordLock'[u] = r => state.user = u /\ state.pc \in {"sessions", "token", "commit"}
               /\ tokenLock'[u] = r =>
                      /\ state.user = u
                      /\ \/ Updating(state) /\ state.pc \in {"change", "sessions", "commit"}
                         \/ Leaving(state) /\ state.pc = "commit"
    PROVE  WaitInv'
<1>1. /\ req'[r] = state /\ \A q \in Requests : q # r => req'[q] = req[q]
      /\ jobs' = jobs
  BY DEF GoTo, Inv, TypeOK
<1>2. FitsItsLocks(r)'
  BY <1>1 DEF FitsItsLocks, HoldsUser, HoldsPassword, HoldsToken
<1>3. QED  BY <1>1, <1>2, StepsKeepWaitInv DEF Actors

LEMMA WhatRequestsHold ==
    ASSUME Inv, WaitInv, NEW r \in Requests, NEW u \in Users
    PROVE  /\ userLock[u] = r => req[r].user = u /\ Leaving(req[r])
           /\ passwordLock[u] = r => req[r].user = u /\ req[r].pc \in {"sessions", "token", "commit"}
           /\ tokenLock[u] = r =>
                  /\ req[r].user = u
                  /\ \/ Updating(req[r]) /\ req[r].pc \in {"change", "sessions", "commit"}
                     \/ Leaving(req[r]) /\ req[r].pc = "commit"
BY HoldersAreApart DEF WaitInv, FitsItsLocks, HoldsUser, HoldsPassword, HoldsToken, Actors

LEMMA RequestsKeepWaitInv ==
    ASSUME Inv, WaitInv, NEW r \in Requests, BeginRequest(r) \/ Continue(r) \/ Abort(r)
    PROVE  WaitInv'
<1>1. CASE Return(r)
  <2>1. \A q \in Requests : q # r => req'[q] = req[q]
    BY <1>1 DEF Return, Inv, TypeOK
  <2>2. jobs' = jobs
    BY DEF BeginRequest, CheckCredentials, UpdatePasswordBegin, DeleteAccountBegin, Continue, Abort,
           Refuse, GoTo, CreateSession, UpdatePasswordOpen, DeleteLiveToken, TakePassword, EndSessions,
           UpdatePasswordCommit, DeleteTokens, DeleteAccountCommit, mails
  <2>3. QED  BY <1>1, <2>1, <2>2, ReturnsKeepWaitInv DEF Return, Actors
<1>2. ASSUME req[r].pc \in {"idle", "hash"}, NEW state, GoTo(r, state), UNCHANGED locks
      PROVE  WaitInv'
  <2>1. \A u \in Users : userLock[u] # r /\ passwordLock[u] # r /\ tokenLock[u] # r
    BY <1>2, WhatRequestsHold DEF Updating, Leaving
  <2>2. QED  BY <1>2, <2>1, MovesKeepWaitInv DEF locks
<1>3. ASSUME NEW u \in Users, CheckCredentials(r, u) \/ UpdatePasswordBegin(r, u)
      PROVE  WaitInv'
  BY <1>2, <1>3 DEF CheckCredentials, UpdatePasswordBegin, Idle
<1>4. CASE UpdatePasswordOpen(r)
  BY <1>2, <1>4 DEF UpdatePasswordOpen
<1>5. ASSUME NEW u \in Users, DeleteAccountBegin(r, u)
      PROVE  WaitInv'
  <2>1. PICK state : state = [pc |-> "change", op |-> "leave", user |-> u, ended |-> {}]
    OBVIOUS
  <2>2. state.user = u /\ Leaving(state) /\ GoTo(r, state)
    BY <1>5, <2>1 DEF Leaving, DeleteAccountBegin
  <2>3. \A v \in Users : userLock[v] # r /\ passwordLock[v] # r /\ tokenLock[v] # r
    BY <1>5, WhatRequestsHold DEF DeleteAccountBegin, Idle, Updating, Leaving
  <2>4. /\ \A v \in Users : userLock'[v] = IF v = u THEN r ELSE userLock[v]
        /\ passwordLock' = passwordLock /\ tokenLock' = tokenLock
    BY <1>5 DEF DeleteAccountBegin, Inv, TypeOK
  <2>5. QED  BY <2>2, <2>3, <2>4, MovesKeepWaitInv
<1>6. ASSUME NEW s, s = req[r], NEW state, GoTo(r, state), state.user = s.user,
             (Updating(s) /\ Updating(state)) \/ (Leaving(s) /\ Leaving(state)),
             NEW u \in Users, u = s.user,
             s.pc \in {"sessions", "token", "commit"} => state.pc \in {"sessions", "token", "commit"},
             Updating(s) /\ s.pc \in {"change", "sessions", "commit"} => state.pc \in {"change", "sessions", "commit"},
             s.pc # "commit",
             userLock' = userLock,
             passwordLock' = passwordLock \/
                 /\ passwordLock' = [passwordLock EXCEPT ![u] = r]
                 /\ state.pc \in {"sessions", "token", "commit"},
             tokenLock' = tokenLock \/
                 /\ tokenLock' = [tokenLock EXCEPT ![u] = r]
                 /\ \/ Updating(state) /\ state.pc \in {"change", "sessions", "commit"}
                    \/ Leaving(state) /\ state.pc = "commit"
      PROVE  WaitInv'
  <2>1. \A v \in Users :
            /\ \/ passwordLock'[v] = passwordLock[v]
               \/ passwordLock'[v] = r /\ v = u /\ state.pc \in {"sessions", "token", "commit"}
            /\ tokenLock'[v] = tokenLock[v] \/
                  /\ tokenLock'[v] = r /\ v = u
                  /\ \/ Updating(state) /\ state.pc \in {"change", "sessions", "commit"}
                     \/ Leaving(state) /\ state.pc = "commit"
    BY <1>6 DEF Inv, TypeOK
  <2>2. ASSUME NEW v \in Users
        PROVE  /\ userLock'[v] = r => state.user = v /\ Leaving(state)
               /\ passwordLock'[v] = r => state.user = v /\ state.pc \in {"sessions", "token", "commit"}
               /\ tokenLock'[v] = r =>
                      /\ state.user = v
                      /\ \/ Updating(state) /\ state.pc \in {"change", "sessions", "commit"}
                         \/ Leaving(state) /\ state.pc = "commit"
    <3>1. ~(Updating(s) /\ Leaving(s)) /\ ~(Updating(state) /\ Leaving(state))
      BY DEF Updating, Leaving
    <3>2. QED  BY <1>6, <2>1, <3>1, WhatRequestsHold
  <2>3. QED  BY <1>6, <2>1, <2>2, MovesKeepWaitInv
<1>7. CASE DeleteLiveToken(r) /\ ~Return(r)
  <2>1. PICK s : s = req[r]
    OBVIOUS
  <2>2. PICK state : state = [s EXCEPT !.pc = "change"]
    OBVIOUS
  <2>3. Updating(s) /\ s.pc = "use"
    BY <1>7, <2>1 DEF DeleteLiveToken, Doing, Updating
  <2>4. /\ s.user \in Users
        /\ state.user = s.user /\ state.pc = "change" /\ Updating(state)
    BY <2>1, <2>2, <2>3, UpdatesHaveTheirFields DEF Inv, Updating
  <2>5. /\ GoTo(r, state) /\ userLock' = userLock /\ passwordLock' = passwordLock
        /\ tokenLock' = [tokenLock EXCEPT ![s.user] = r]
    BY <1>7, <2>1, <2>2 DEF DeleteLiveToken, Refuse
  <2>6. QED  BY <1>6, <2>1, <2>3, <2>4, <2>5
<1>8. CASE TakePassword(r) /\ ~Return(r)
  <2>1. PICK s : s = req[r]
    OBVIOUS
  <2>2. PICK state : state = [s EXCEPT !.pc = "sessions"]
    OBVIOUS
  <2>3. s.pc = "change" /\ (Updating(s) \/ Leaving(s))
    BY <1>8, <2>1, RequestsDoOneThing DEF TakePassword, Inv
  <2>4. /\ s.user \in Users
        /\ state.user = s.user /\ state.pc = "sessions"
        /\ (Updating(s) /\ Updating(state)) \/ (Leaving(s) /\ Leaving(state))
    BY <2>1, <2>2, <2>3, UpdatesHaveTheirFields, DeletionsHaveTheirFields DEF Inv, Updating, Leaving
  <2>5. /\ GoTo(r, state) /\ userLock' = userLock /\ tokenLock' = tokenLock
        /\ passwordLock' = [passwordLock EXCEPT ![s.user] = r]
    BY <1>8, <2>1, <2>2 DEF TakePassword, Refuse
  <2>6. QED  BY <1>6, <2>1, <2>3, <2>4, <2>5
<1>9. CASE EndSessions(r)
  <2>1. PICK s : s = req[r]
    OBVIOUS
  <2>2. PICK pc : pc = IF s.op = "leave" THEN "token" ELSE "commit"
    OBVIOUS
  <2>3. PICK ended : ended = SessionsOf(s.user)
    OBVIOUS
  <2>4. PICK state : state = [s EXCEPT !.pc = pc, !.ended = ended]
    OBVIOUS
  <2>5. s.pc = "sessions" /\ (Updating(s) \/ Leaving(s))
    BY <1>9, <2>1, RequestsDoOneThing DEF EndSessions, Inv
  <2>6. /\ s.user \in Users
        /\ state.user = s.user /\ state.pc = pc /\ pc \in {"token", "commit"}
        /\ (Updating(s) /\ Updating(state)) \/ (Leaving(s) /\ Leaving(state))
        /\ Updating(s) => pc = "commit"
    BY <2>1, <2>2, <2>4, <2>5, UpdatesHaveTheirFields, DeletionsHaveTheirFields DEF Inv, Updating, Leaving
  <2>7. GoTo(r, state) /\ userLock' = userLock /\ passwordLock' = passwordLock /\ tokenLock' = tokenLock
    BY <1>9, <2>1, <2>2, <2>3, <2>4 DEF EndSessions, locks
  <2>8. QED  BY <1>6, <2>1, <2>5, <2>6, <2>7
<1>10. CASE DeleteTokens(r)
  <2>1. PICK s : s = req[r]
    OBVIOUS
  <2>2. PICK state : state = [s EXCEPT !.pc = "commit"]
    OBVIOUS
  <2>3. Leaving(s) /\ s.pc = "token"
    BY <1>10, <2>1 DEF DeleteTokens, Doing, Leaving
  <2>4. /\ s.user \in Users
        /\ state.user = s.user /\ state.pc = "commit" /\ Leaving(state)
    BY <2>1, <2>2, <2>3, DeletionsHaveTheirFields DEF Inv, Leaving
  <2>5. /\ GoTo(r, state) /\ userLock' = userLock /\ passwordLock' = passwordLock
        /\ tokenLock' = [tokenLock EXCEPT ![s.user] = r]
    BY <1>10, <2>1, <2>2 DEF DeleteTokens
  <2>6. QED  BY <1>6, <2>1, <2>3, <2>4, <2>5 DEF Updating, Leaving
<1>11. CASE (\E s \in Sessions : CreateSession(r, s)) \/ UpdatePasswordCommit(r) \/ DeleteAccountCommit(r) \/ Abort(r)
  BY <1>1, <1>11 DEF CreateSession, UpdatePasswordCommit, DeleteAccountCommit, Abort, Refuse
<1>12. QED  BY <1>1, <1>3, <1>4, <1>5, <1>7, <1>8, <1>9, <1>10, <1>11 DEF BeginRequest, Continue

LEMMA JobsKeepWaitInv ==
    ASSUME Inv, WaitInv, NEW j \in Jobs,
           Work(j) \/ JobFails(j) \/ \E u \in Users : CreatePasswordReset(j, u)
    PROVE  WaitInv'
<1>1. req' = req /\ \A k \in Jobs : k # j => jobs'[k] = jobs[k]
  BY DEF Work, LockUser, ReplaceToken, SendReset, JobFails, CreatePasswordReset, Inv, TypeOK
<1>2. CASE FreeLocks(j)
  BY <1>1, <1>2, ReturnsKeepWaitInv DEF Actors
<1>3. ASSUME ~JobIs(j, "replacing")
      PROVE  \A u \in Users : userLock[u] # j /\ passwordLock[u] # j /\ tokenLock[u] # j
  BY <1>3, HoldersAreApart DEF WaitInv, FitsItsLocks, HoldsUser, HoldsPassword, HoldsToken, Actors
<1>4. CASE SendReset(j) \/ \E u \in Users : CreatePasswordReset(j, u)
  <2>1. userLock' = userLock /\ passwordLock' = passwordLock /\ tokenLock' = tokenLock
    BY <1>4 DEF SendReset, CreatePasswordReset, locks
  <2>2. ~JobIs(j, "replacing")
    BY <1>4 DEF SendReset, CreatePasswordReset, JobIs
  <2>3. FitsItsLocks(j)'
    BY <1>3, <2>1, <2>2 DEF FitsItsLocks
  <2>4. QED  BY <1>1, <2>1, <2>3, StepsKeepWaitInv DEF Actors
<1>5. CASE LockUser(j)
  <2>1. PICK u : u = jobs[j].user
    OBVIOUS
  <2>2. u \in Users /\ jobs[j] \in JobRows
    BY <1>5, <2>1 DEF LockUser, JobIs, Inv, TypeOK, JobRows
  <2>3. ~JobIs(j, "replacing")
    BY <1>5 DEF LockUser, JobIs
  <2>4. passwordLock' = passwordLock /\ tokenLock' = tokenLock
    BY <1>5 DEF LockUser
  <2>5. \/ userLock' = userLock
        \/ /\ userLock' = [userLock EXCEPT ![u] = j]
           /\ jobs' = [jobs EXCEPT ![j].state = "replacing"]
    BY <1>5, <2>1 DEF LockUser
  <2>6. jobs' = [jobs EXCEPT ![j].state = "replacing"] => JobIs(j, "replacing")' /\ jobs'[j].user = u
    <3>1. ASSUME jobs' = [jobs EXCEPT ![j].state = "replacing"]
          PROVE  /\ jobs'[j].state = "replacing" /\ jobs'[j].user = u
                 /\ jobs'[j] \in JobRows
      BY <2>1, <2>2, <3>1 DEF Inv, TypeOK, JobRows
    <3>2. QED  BY <3>1, NoRowIsNoRow DEF JobIs
  <2>7. \A v \in Users : userLock'[v] = userLock[v] \/ (userLock'[v] = j /\ v = u /\ HoldsUser(j, u)')
    BY <2>5, <2>6 DEF HoldsUser, Inv, TypeOK
  <2>8. FitsItsLocks(j)'
    BY <1>3, <2>3, <2>4, <2>7 DEF FitsItsLocks
  <2>9. QED  BY <1>1, <2>4, <2>7, <2>8, StepsKeepWaitInv DEF Actors
<1>6. QED  BY <1>2, <1>4, <1>5 DEF Work, ReplaceToken, JobFails

\* A circle of waits is one that PostgreSQL finds and ends: every one has a
\* change of password and a deletion of the same user in it that hold what the
\* other needs (the safety half of JobsEnd, of the order in which the two take
\* the rows of the password and the token).
THEOREM WaitsEnd == Spec => []CirclesAreDeadlocks
<1>1. Init => WaitInv
  BY HoldersAreApart DEF Init, WaitInv, FitsItsLocks, Actors
<1>2. Inv /\ WaitInv /\ [Next]_vars => WaitInv'
  <2> SUFFICES ASSUME Inv, WaitInv, [Next]_vars
               PROVE  WaitInv'
    OBVIOUS
  <2>1. CASE UNCHANGED <<jobs, locks, req>>
    BY <2>1 DEF WaitInv, FitsItsLocks, HoldsUser, HoldsPassword, HoldsToken, JobIs, locks
  <2>2. QED  BY <2>1, RequestsKeepWaitInv, JobsKeepWaitInv DEF Next, DeleteSession, Expire, vars
<1>3. Inv /\ WaitInv => CirclesAreDeadlocks
  BY CirclesHaveAKnot
<1>4. QED  BY <1>1, <1>2, <1>3, InvHolds, PTL DEF Spec

=============================================================================
