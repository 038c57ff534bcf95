------------------------------ MODULE RateLimit ------------------------------
(***************************************************************************)
(* The limiter: attempts are counted in windows of a fixed length, per     *)
(* address they come from and per account they are about.                  *)
(*                                                                         *)
(* An attempt reads the clock, and only then adds to the row of the window *)
(* it read; with two units it does so twice, so a window, and a run of the *)
(* job that deletes old rows, may come in between.                         *)
(*                                                                         *)
(* Counting takes no part in the transaction of the operation that is      *)
(* limited, so what fails later has been counted all the same.  The clock  *)
(* of all processes is the same.                                           *)
(***************************************************************************)
EXTENDS Naturals, FiniteSets

CONSTANTS
    Requests,       \* attempts in flight and runs of the job
    Addresses,      \* what attempts carry: IP addresses and e-mail addresses or ids of users
    IPs,            \* those of them that are IP addresses
    NoAddress,      \* a form that names no account
    Unit,           \* the network of an IP address, the spelling an e-mail address is kept in
    Limit,          \* the limit of each unit
    Window,         \* the length of the windows
    Retention,      \* how long rows are kept
    Patience,       \* how long a statement may take
    MaxTime,        \* bound: the end of the clock
    MaxCount        \* bound: no row is counted beyond this

ASSUME UnitsAreAddresses ==
    /\ Unit \in [Addresses -> Addresses]
    /\ IPs \subseteq Addresses /\ NoAddress \notin Addresses
ASSUME LimitsArePositive == Limit \in [Addresses -> Nat \ {0}]
ASSUME TimesAreNumbers ==
    /\ Window \in Nat \ {0} /\ Retention \in Nat \ {0}
    /\ Patience \in Nat /\ MaxTime \in Nat /\ MaxCount \in Nat
ASSUME RowsOutliveAttempts == Window + Patience <= Retention

VARIABLES
    now,
    counts,     \* rate_limits: the count of each key and window, 0 where there is no row
    req,        \* where each request stands
    passed      \* history: the checks of each unit and window that were allowed

vars == <<now, counts, req, passed>>

startOfWindow(t) == t - (t % Window)

Starts == {startOfWindow(t) : t \in 0..MaxTime}
Keys == Addresses \X Starts

Idle == [pc |-> "idle"]
Attempts == [pc: {"clock", "count", "over"}, ip: IPs, account: Addresses \cup {NoAddress},
             readAt: 0..MaxTime, counted: SUBSET Keys, full: SUBSET Keys, resetAt: Nat]
Jobs == [pc: {"clean"}, readAt: 0..MaxTime]

TypeOK ==
    /\ now \in 0..MaxTime
    /\ counts \in [Keys -> Nat]
    /\ req \in [Requests -> {Idle} \cup Attempts \cup Jobs]
    /\ passed \in [Keys -> Nat]

Init ==
    /\ now = 0
    /\ counts = [k \in Keys |-> 0]
    /\ req = [r \in Requests |-> Idle]
    /\ passed = [k \in Keys |-> 0]

-----------------------------------------------------------------------------
\* No statement lasts longer than Patience after its clock was read.
Tick ==
    /\ now < MaxTime
    /\ \A r \in Requests : req[r].pc = "count" => now < req[r].readAt + Patience
    /\ now' = now + 1
    /\ UNCHANGED <<counts, req, passed>>

Begin(r, state) ==
    /\ req[r] = Idle
    /\ req' = [req EXCEPT ![r] = state]
    /\ UNCHANGED <<now, counts, passed>>

\* An attempt of the operation that is limited.
Attempt(r, ip, account) ==
    Begin(r, [pc |-> "clock", ip |-> ip, account |-> account, readAt |-> 0,
              counted |-> {}, full |-> {}, resetAt |-> 0])

\* The answer has been given, a statement has failed or the process has ended.
End(r) ==
    /\ req[r] # Idle
    /\ req' = [req EXCEPT ![r] = Idle]
    /\ UNCHANGED <<now, counts, passed>>

-----------------------------------------------------------------------------
(* One check. *)

\* Wrong on purpose: an attempt that is refused already is not counted further.
ReadClockUnlessRefused(r) ==
    /\ req[r].pc = "clock"
    /\ req' = [req EXCEPT ![r].pc = IF req[r].full = {} THEN "count" ELSE "over", ![r].readAt = now]
    /\ UNCHANGED <<now, counts, passed>>

ReadClock(r) ==
    /\ req[r].pc = "clock"
    /\ req' = [req EXCEPT ![r].pc = "count", ![r].readAt = now]
    /\ UNCHANGED <<now, counts, passed>>

\* The address is counted first, the account after it.
Checked(s) == IF s.counted = {} THEN s.ip ELSE s.account

\* Wrong on purpose: each address of a network, each spelling, counts for itself.
RawKey(address) == address

KeyOf(address) == Unit[address]

Allowed(count, limit) == count <= limit

\* The units that are still to be counted, whatever the checks before have said.
Remains(s) == s.counted = {} /\ s.account # NoAddress

\* The upsert.  It decides by the count it has just written; the latest end of
\* a window found full becomes the time to wait for.  Bound: MaxCount.
Count(r) ==
    LET s == req[r]
        start == startOfWindow(s.readAt)
        row == <<KeyOf(Checked(s)), start>>
        key == <<Unit[Checked(s)], start>>
        count == counts[row] + 1
        ok == Allowed(count, Limit[Unit[Checked(s)]])
        resetAt == IF ~ok /\ s.resetAt < start + Window THEN start + Window ELSE s.resetAt
    IN  /\ s.pc = "count"
        /\ count <= MaxCount
        /\ counts' = [counts EXCEPT ![row] = count]
        /\ passed' = IF ok THEN [passed EXCEPT ![key] = @ + 1] ELSE passed
        /\ req' = [req EXCEPT ![r] =
                      [s EXCEPT !.pc = IF Remains(s) THEN "clock" ELSE "over",
                                !.readAt = 0,
                                !.counted = @ \cup {key},
                                !.full = IF ok THEN @ ELSE @ \cup {key},
                                !.resetAt = resetAt]]
        /\ UNCHANGED now

-----------------------------------------------------------------------------
(* The job. *)

DeleteExpiredBegin(r) == Begin(r, [pc |-> "clean", readAt |-> now])

\* Wrong on purpose: everything begun before now goes.
ExpiredNow(start, t) == start < t

\* The condition of the DELETE: begun longer than Retention before the job read
\* the clock.
Expired(start, t) == start + Retention < t

DeleteExpired(r) ==
    /\ req[r].pc = "clean"
    /\ counts' = [k \in Keys |-> IF Expired(k[2], req[r].readAt) THEN 0 ELSE counts[k]]
    /\ req' = [req EXCEPT ![r] = Idle]
    /\ UNCHANGED <<now, passed>>

Step(r) == ReadClock(r) \/ Count(r) \/ DeleteExpired(r)

Next ==
    \/ Tick
    \/ \E r \in Requests :
          \/ \E ip \in IPs, account \in (Addresses \ IPs) \cup {NoAddress} : Attempt(r, ip, account)
          \/ DeleteExpiredBegin(r)
          \/ Step(r)
          \/ End(r)

Spec == Init /\ [][Next]_vars

-----------------------------------------------------------------------------
(* What must hold. *)

\* In no window more checks of a network or an account are allowed than its
\* limit, however the addresses change within the network, with checks that
\* write late and with the job that deletes rows.
WindowsKeepTheLimit == \A k \in Keys : passed[k] <= Limit[k[1]]

\* Who is refused is refused because the limit was used up by checks that were
\* allowed in the same window.
RefusalsAreDeserved ==
    \A r \in Requests : req[r].pc \in {"clock", "count", "over"} =>
        \A k \in req[r].full : passed[k] = Limit[k[1]]

\* An attempt that has been decided was counted for its address and for its
\* account, the refused one too, and what it added is still there as long as the
\* window runs; the time it is told to wait for is not before the end of any
\* window it found full.
DecidedAttemptsAreCounted ==
    \A r \in Requests :
        LET s == req[r]
        IN  s.pc = "over" =>
                /\ \A a \in {s.ip, s.account} \ {NoAddress} : \E k \in s.counted : k[1] = Unit[a]
                /\ \A k \in s.counted : now < k[2] + Window => counts[k] > 0
                /\ \A k \in s.full : k[2] + Window <= s.resetAt
                /\ s.full = {} => s.resetAt = 0

\* The count of a window that is still running never falls.
RunningWindowsStay ==
    [][\A k \in Keys : now < k[2] + Window => counts'[k] >= counts[k]]_vars

=============================================================================
