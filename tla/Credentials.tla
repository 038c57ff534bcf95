----------------------------- MODULE Credentials -----------------------------
(***************************************************************************)
(* What a user signs in with: the password, the link that replaces it, and *)
(* the sessions; and the deletion of the account, which takes all of them. *)
(*                                                                         *)
(* A request for a new password puts a job into the queue.  The job makes  *)
(* the token, commits, and only then sends the mail with it; a job that    *)
(* fails is run again, with a new token, a limited number of times.  The   *)
(* page behind the link spends the token, changes the password and ends    *)
(* the sessions in one transaction, taking the rows in that order; the     *)
(* deletion of an account takes the same rows from the other end.          *)
(*                                                                         *)
(* Of a password only its number in the row of passwords of a user is      *)
(* kept, of a token its number in the order of making.  The second factor  *)
(* stands between CheckCredentials and CreateSession; it is the subject of *)
(* module SecondFactor.                                                    *)
(***************************************************************************)
EXTENDS Naturals, FiniteSets

CONSTANTS
    Users,
    Requests,       \* requests in flight, a sign-in until its session is made
    Jobs,           \* jobs that may be put into the queue
    Sessions,       \* ids of the sessions that may be made
    NoRow,          \* "no such row"
    Nobody,         \* "nobody holds the lock"
    MaxAttempts,    \* emailMaxAttempts
    MaxTokens,      \* bound: tokens made
    MaxPasswords    \* bound: passwords of a user

ASSUME BoundsAreNumbers == {MaxAttempts, MaxTokens, MaxPasswords} \subseteq Nat \ {0}
ASSUME NobodyIsNobody == Nobody \notin Requests \cup Jobs
ASSUME RequestsAreNoJobs == Requests \cap Jobs = {}

VARIABLES
    alive,          \* users: deleted_at IS NULL
    password,       \* user_passwords: which password, 0 for no row
    token,          \* password_reset_tokens: which token, 0 for no row
    sessions,       \* user_sessions, with the password that was checked
    expired,        \* the tokens whose expires_at has passed
    made,           \* the number of tokens made so far
    mailed,         \* the tokens that are in a mailbox
    used,           \* history: the tokens that have changed a user's password
    jobs,           \* the queue
    userLock, passwordLock, tokenLock,  \* who holds the row of a user
    req             \* where each request stands

locks == <<userLock, passwordLock, tokenLock>>
rows == <<alive, password, token, sessions>>
mails == <<expired, made, mailed, used>>
vars == <<rows, mails, jobs, locks, req>>

Tokens == 1..MaxTokens
Passwords == 1..MaxPasswords
Holders == Requests \cup Jobs \cup {Nobody}

Idle == [pc |-> "idle"]
RequestStates ==
    {Idle}
    \cup [pc: {"signin"}, user: Users, password: Passwords]
    \cup [pc: {"hash", "use", "change", "sessions", "commit"}, op: {"update"},
          user: Users, token: Tokens, inTime: BOOLEAN, ended: SUBSET Sessions]
    \cup [pc: {"change", "sessions", "token", "commit"}, op: {"leave"}, user: Users, ended: SUBSET Sessions]

\* "token" is the one the last attempt has made, 0 for none.
JobRows == [user: Users, state: {"queued", "replacing", "sending", "done", "discarded"},
            left: 0..MaxAttempts, token: 0..MaxTokens]

SessionRows == [user: Users, password: Passwords]
ASSUME NoRowIsNoRow == NoRow \notin JobRows \cup SessionRows

TypeOK ==
    /\ alive \in [Users -> BOOLEAN]
    /\ password \in [Users -> Passwords \cup {0}]
    /\ token \in [Users -> Tokens \cup {0}]
    /\ sessions \in [Sessions -> SessionRows \cup {NoRow}]
    /\ made \in 0..MaxTokens
    /\ expired \cup mailed \subseteq 1..made
    /\ used \in [Users -> SUBSET (1..made)]
    /\ jobs \in [Jobs -> JobRows \cup {NoRow}]
    /\ userLock \in [Users -> Holders]
    /\ passwordLock \in [Users -> Holders]
    /\ tokenLock \in [Users -> Holders]
    /\ req \in [Requests -> RequestStates]

Init ==
    /\ alive = [u \in Users |-> TRUE]
    /\ password = [u \in Users |-> 1]
    /\ token = [u \in Users |-> 0]
    /\ sessions = [s \in Sessions |-> NoRow]
    /\ expired = {} /\ made = 0 /\ mailed = {}
    /\ used = [u \in Users |-> {}]
    /\ jobs = [j \in Jobs |-> NoRow]
    /\ userLock = [u \in Users |-> Nobody]
    /\ passwordLock = [u \in Users |-> Nobody]
    /\ tokenLock = [u \in Users |-> Nobody]
    /\ req = [r \in Requests |-> Idle]

-----------------------------------------------------------------------------
(* Locks and the ends of requests. *)

SessionsOf(u) == {s \in Sessions : sessions[s] # NoRow /\ sessions[s].user = u}

Unlocked(lock, h) == [u \in Users |-> IF lock[u] = h THEN Nobody ELSE lock[u]]

\* The transaction is over.
FreeLocks(h) ==
    /\ userLock' = Unlocked(userLock, h)
    /\ passwordLock' = Unlocked(passwordLock, h)
    /\ tokenLock' = Unlocked(tokenLock, h)

Return(r) == FreeLocks(r) /\ req' = [req EXCEPT ![r] = Idle]

\* Wrong on purpose: a transaction that fails is not rolled back, and its locks
\* stay with the connection.
RefuseHoldingLocks(r) ==
    /\ req' = [req EXCEPT ![r] = Idle]
    /\ UNCHANGED <<rows, mails, jobs, locks>>

Refuse(r) == Return(r) /\ UNCHANGED <<rows, mails, jobs>>

\* A failed statement, a lost client, the end of the process, or a transaction
\* that PostgreSQL ends because of a deadlock.
Abort(r) == req[r] # Idle /\ Refuse(r)

GoTo(r, state) ==
    /\ req' = [req EXCEPT ![r] = state]
    /\ UNCHANGED <<rows, mails, jobs>>

Doing(r, op, pc) == req[r].pc = pc /\ req[r].op = op

\* An hour has passed.
Expire(k) ==
    /\ k \in (1..made) \ expired
    /\ expired' = expired \cup {k}
    /\ UNCHANGED <<rows, made, mailed, used, jobs, locks, req>>

-----------------------------------------------------------------------------
(* Signing in and out. *)

\* The password fits.  A user who has left is not found.
CheckCredentials(r, u) ==
    /\ req[r] = Idle
    /\ alive[u] /\ password[u] # 0
    /\ GoTo(r, [pc |-> "signin", user |-> u, password |-> password[u]])
    /\ UNCHANGED locks

\* WithdrawUser changes unique columns, so until it commits the foreign key
\* of an insert waits for the row of the user.
BeingWithdrawn(u) ==
    \E q \in Requests : req[q].pc \notin {"idle", "signin"} /\ req[q].op = "leave" /\ req[q].user = u

\* Bound: an id is given again only when nobody means its former row.
Fresh(s) ==
    /\ sessions[s] = NoRow
    /\ \A q \in Requests : req[q].pc \notin {"idle", "signin"} => s \notin req[q].ended

\* Neither the user nor the password is read again.
CreateSession(r, s) ==
    /\ req[r].pc = "signin"
    /\ Fresh(s)
    /\ ~BeingWithdrawn(req[r].user)
    /\ sessions' = [sessions EXCEPT ![s] = [user |-> req[r].user, password |-> req[r].password]]
    /\ Return(r)
    /\ UNCHANGED <<alive, password, token, mails, jobs>>

\* Signing out, or the clean-up of a session that has expired.
DeleteSession(s) ==
    /\ sessions[s] # NoRow
    /\ sessions' = [sessions EXCEPT ![s] = NoRow]
    /\ UNCHANGED <<alive, password, token, mails, jobs, locks, req>>

-----------------------------------------------------------------------------
(* The job that sends the link. *)

CreatePasswordReset(j, u) ==
    /\ jobs[j] = NoRow
    /\ alive[u]
    /\ jobs' = [jobs EXCEPT ![j] = [user |-> u, state |-> "queued", left |-> MaxAttempts, token |-> 0]]
    /\ UNCHANGED <<rows, mails, locks, req>>

JobIs(j, state) == jobs[j] # NoRow /\ jobs[j].state = state

\* Wrong on purpose: the user is read without a lock.
ReadUserOnly(j) ==
    /\ JobIs(j, "queued")
    /\ IF alive[jobs[j].user]
       THEN jobs' = [jobs EXCEPT ![j].state = "replacing"]
       ELSE jobs' = [jobs EXCEPT ![j].state = "done"]
    /\ UNCHANGED <<rows, mails, locks, req>>

\* The user is locked and read at once; nothing is sent to one who has left.
LockUser(j) ==
    /\ JobIs(j, "queued")
    /\ LET u == jobs[j].user
       IN  /\ userLock[u] = Nobody
           /\ IF alive[u]
              THEN /\ jobs' = [jobs EXCEPT ![j].state = "replacing"]
                   /\ userLock' = [userLock EXCEPT ![u] = j]
              ELSE /\ jobs' = [jobs EXCEPT ![j].state = "done"]
                   /\ UNCHANGED userLock
    /\ UNCHANGED <<rows, mails, passwordLock, tokenLock, req>>

\* The old token, which a change of password may hold, gives way to a new one.
ReplaceToken(j) ==
    /\ JobIs(j, "replacing")
    /\ made < MaxTokens
    /\ LET u == jobs[j].user
       IN  /\ tokenLock[u] = Nobody
           /\ token' = [token EXCEPT ![u] = made + 1]
    /\ made' = made + 1
    /\ jobs' = [jobs EXCEPT ![j].state = "sending", ![j].token = made + 1]
    /\ FreeLocks(j)
    /\ UNCHANGED <<alive, password, sessions, expired, mailed, used, req>>

\* Wrong on purpose: with an IdempotencyKey, a mail after one that has in fact
\* been delivered is dropped.
DeliverOnce(j) ==
    mailed' = IF \E k \in mailed : k < jobs[j].token THEN mailed ELSE mailed \cup {jobs[j].token}

Deliver(j) == mailed' = mailed \cup {jobs[j].token}

SendReset(j) ==
    /\ JobIs(j, "sending")
    /\ Deliver(j)
    /\ jobs' = [jobs EXCEPT ![j].state = "done"]
    /\ UNCHANGED <<rows, expired, made, used, locks, req>>

\* The queue runs a job again until its attempts are used up.
Failed(j) ==
    [jobs[j] EXCEPT !.state = IF jobs[j].left > 1 THEN "queued" ELSE "discarded",
                    !.left = @ - 1]

\* An error, or the end of the process.  The mail of an attempt that is told
\* to have failed may have been delivered.
JobFails(j) ==
    /\ \E state \in {"queued", "replacing", "sending"} : JobIs(j, state)
    /\ \/ UNCHANGED mailed
       \/ JobIs(j, "sending") /\ Deliver(j)
    /\ jobs' = [jobs EXCEPT ![j] = Failed(j)]
    /\ FreeLocks(j)
    /\ UNCHANGED <<rows, expired, made, used, req>>

-----------------------------------------------------------------------------
(* The page behind the link. *)

UpdatePasswordBegin(r, u) ==
    /\ req[r] = Idle
    /\ password[u] < MaxPasswords
    /\ token[u] # 0 /\ token[u] \in mailed \ expired
    /\ GoTo(r, [pc |-> "hash", op |-> "update", user |-> u, token |-> token[u], inTime |-> TRUE, ended |-> {}])
    /\ UNCHANGED locks

\* NOW() is the time at which the transaction begins.
UpdatePasswordOpen(r) ==
    /\ req[r].pc = "hash"
    /\ GoTo(r, [req[r] EXCEPT !.pc = "use", !.inTime = req[r].token \notin expired])
    /\ UNCHANGED locks

\* Wrong on purpose: what was read before the transaction is believed.
BelieveToken(r) ==
    /\ Doing(r, "update", "use")
    /\ GoTo(r, [req[r] EXCEPT !.pc = "change"]) /\ UNCHANGED locks

\* Wrong on purpose: deletes whatever token the user has.
DeleteTokenOfUser(r) ==
    /\ Doing(r, "update", "use")
    /\ LET u == req[r].user
       IN  IF token[u] # 0
           THEN /\ tokenLock[u] = Nobody
                /\ tokenLock' = [tokenLock EXCEPT ![u] = r]
                /\ GoTo(r, [req[r] EXCEPT !.pc = "change"])
                /\ UNCHANGED <<userLock, passwordLock>>
           ELSE Refuse(r)

\* DELETE ... WHERE id = ... AND expires_at > NOW(): waits for whoever holds
\* the row, and finds nothing when that transaction has removed it.
DeleteLiveToken(r) ==
    /\ Doing(r, "update", "use")
    /\ LET u == req[r].user
       IN  IF token[u] = req[r].token /\ req[r].inTime
           THEN /\ tokenLock[u] = Nobody
                /\ tokenLock' = [tokenLock EXCEPT ![u] = r]
                /\ GoTo(r, [req[r] EXCEPT !.pc = "change"])
                /\ UNCHANGED <<userLock, passwordLock>>
           ELSE Refuse(r)

\* UPDATE or DELETE of the row of the password; without a row there is nothing
\* to update.
TakePassword(r) ==
    /\ req[r].pc = "change"
    /\ LET u == req[r].user
       IN  IF password[u] = 0 THEN Refuse(r)
           ELSE /\ passwordLock[u] = Nobody
                /\ passwordLock' = [passwordLock EXCEPT ![u] = r]
                /\ GoTo(r, [req[r] EXCEPT !.pc = "sessions"])
                /\ UNCHANGED <<userLock, tokenLock>>

\* The statement ends the sessions that are there when it begins.
EndSessions(r) ==
    /\ req[r].pc = "sessions"
    /\ GoTo(r, [req[r] EXCEPT !.pc = IF req[r].op = "leave" THEN "token" ELSE "commit",
                              !.ended = SessionsOf(req[r].user)])
    /\ UNCHANGED locks

Without(ended) == [s \in Sessions |-> IF s \in ended THEN NoRow ELSE sessions[s]]

UpdatePasswordCommit(r) ==
    /\ Doing(r, "update", "commit")
    /\ LET u == req[r].user
       IN  /\ token' = [token EXCEPT ![u] = IF @ = req[r].token THEN 0 ELSE @]
           /\ password' = [password EXCEPT ![u] = @ + 1]
           /\ used' = [used EXCEPT ![u] = @ \cup {req[r].token}]
    /\ sessions' = Without(req[r].ended)
    /\ Return(r)
    /\ UNCHANGED <<alive, expired, made, mailed, jobs>>

-----------------------------------------------------------------------------
(* The deletion of the account. *)

\* The user is locked, the password fits and WithdrawUser has changed the row.
DeleteAccountBegin(r, u) ==
    /\ req[r] = Idle
    /\ alive[u] /\ password[u] # 0
    /\ userLock[u] = Nobody
    /\ userLock' = [userLock EXCEPT ![u] = r]
    /\ GoTo(r, [pc |-> "change", op |-> "leave", user |-> u, ended |-> {}])
    /\ UNCHANGED <<passwordLock, tokenLock>>

DeleteTokens(r) ==
    /\ Doing(r, "leave", "token")
    /\ LET u == req[r].user
       IN  /\ tokenLock[u] = Nobody
           /\ tokenLock' = [tokenLock EXCEPT ![u] = r]
    /\ GoTo(r, [req[r] EXCEPT !.pc = "commit"])
    /\ UNCHANGED <<userLock, passwordLock>>

DeleteAccountCommit(r) ==
    /\ Doing(r, "leave", "commit")
    /\ LET u == req[r].user
       IN  /\ alive' = [alive EXCEPT ![u] = FALSE]
           /\ password' = [password EXCEPT ![u] = 0]
           /\ token' = [token EXCEPT ![u] = 0]
    /\ sessions' = Without(req[r].ended)
    /\ Return(r)
    /\ UNCHANGED <<mails, jobs>>

-----------------------------------------------------------------------------
BeginRequest(r) ==
    \E u \in Users :
        \/ CheckCredentials(r, u)
        \/ UpdatePasswordBegin(r, u)
        \/ DeleteAccountBegin(r, u)

\* The step the server owes a request it has begun.
Continue(r) ==
    \/ \E s \in Sessions : CreateSession(r, s)
    \/ UpdatePasswordOpen(r)
    \/ DeleteLiveToken(r)
    \/ TakePassword(r)
    \/ EndSessions(r)
    \/ UpdatePasswordCommit(r)
    \/ DeleteTokens(r)
    \/ DeleteAccountCommit(r)

\* A change of password and a deletion that hold what the other needs:
\* PostgreSQL ends one of them.
InDeadlock(r) ==
    /\ req[r].pc = "change"
    /\ req[r].op = "update"
    /\ \E q \in Requests :
          /\ Doing(q, "leave", "token") /\ q = passwordLock[req[r].user]
          /\ tokenLock[req[q].user] = r

EndDeadlock(r) == InDeadlock(r) /\ Abort(r)

\* What an attempt of a job does, unless it fails.
Work(j) == LockUser(j) \/ ReplaceToken(j) \/ SendReset(j)

Next ==
    \/ \E r \in Requests : BeginRequest(r) \/ Continue(r) \/ Abort(r)
    \/ \E j \in Jobs, u \in Users : CreatePasswordReset(j, u)
    \/ \E j \in Jobs : Work(j) \/ JobFails(j)
    \/ \E s \in Sessions : DeleteSession(s)
    \/ \E k \in Tokens : Expire(k)

Spec == Init /\ [][Next]_vars

\* Requests and jobs that have begun go on, a row's waiters are served in turn,
\* and a deadlock is found.  A job may fail and need not.
FairSpec ==
    /\ Spec
    /\ \A r \in Requests : SF_vars(Continue(r)) /\ WF_vars(EndDeadlock(r))
    /\ \A j \in Jobs : SF_vars(Work(j))

-----------------------------------------------------------------------------
(* What must hold. *)

\* However often a link is sent in, from however many tabs, it has changed the
\* password at most once: a password is the first one plus one for each link.
EachLinkChangesOnce ==
    \A u \in Users : alive[u] => password[u] = 1 + Cardinality(used[u])

\* A password changes only by the link that is stored at that instant, so by
\* none that a later request has replaced, and the link goes with it.
TheStoredLinkChanges ==
    [][\A u \in Users :
          used'[u] # used[u] =>
              /\ token[u] # 0 /\ used'[u] = used[u] \cup {token[u]}
              /\ token'[u] = 0]_vars

\* The link that is stored is in the mailbox, or the job that made it is still
\* going to try, or has given up: a job run again never leaves only mails with
\* links it has replaced itself.
LinksReachTheMailbox ==
    \A u \in Users : token[u] # 0 =>
        \/ token[u] \in mailed
        \/ \E j \in Jobs : jobs[j] # NoRow /\ jobs[j].token = token[u] /\ jobs[j].state # "done"

\* Who has left has neither a password nor a link to set one, whatever jobs and
\* requests were under way.
GoneUsersCannotSignIn ==
    \A u \in Users : ~alive[u] => password[u] = 0 /\ token[u] = 0

\* A session that was obtained with an old password does not remain.  The code
\* does not keep this: see CreateSession.
OldPasswordSessionsEnd ==
    \A s \in Sessions : sessions[s] # NoRow /\ alive[sessions[s].user] =>
        sessions[s].password = password[sessions[s].user]

\* A requested mail is sent, found to be of no use, or given up: the rows of the
\* user and of the token, for which the job waits, become free, although a
\* change of password and a deletion that hold them may deadlock.
JobsEnd ==
    \A j \in Jobs :
        JobIs(j, "queued") ~> (JobIs(j, "done") \/ JobIs(j, "discarded"))

=============================================================================
