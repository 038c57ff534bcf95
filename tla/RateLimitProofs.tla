--------------------------- MODULE RateLimitProofs ---------------------------
(***************************************************************************)
(* Theorems about RateLimit, for any requests, addresses, limits, lengths  *)
(* of windows and bounds, as long as rows are kept for a window and the    *)
(* duration of a statement (RowsOutliveAttempts).                          *)
(***************************************************************************)
EXTENDS RateLimit, TLAPS

-----------------------------------------------------------------------------
(* The invariant. *)

Attempting(r) == req[r].pc \in {"clock", "count", "over"}

\* Nobody writes into the window any more.
Closed(k) == k[2] + Window + Patience < now

\* The clock was read in the past, and not too long ago to write.
ClocksWereRead ==
    \A r \in Requests :
        /\ req[r].pc = "count" => req[r].readAt <= now /\ now <= req[r].readAt + Patience
        /\ req[r].pc = "clean" => req[r].readAt <= now

\* A row tells how many checks of its window were allowed; a row that has been
\* deleted, with checks that were allowed, belongs to a closed window.
RowsTellWhatPassed ==
    \A k \in Keys :
        /\ passed[k] <= Limit[k[1]]
        /\ counts[k] > 0 => passed[k] = IF counts[k] <= Limit[k[1]] THEN counts[k] ELSE Limit[k[1]]
        /\ counts[k] = 0 /\ passed[k] > 0 => Closed(k)

\* How far an attempt is, and what it has counted by then.
KeepsCount(s) ==
    /\ s.counted = {} => s.pc # "over" /\ s.full = {}
    /\ s.counted # {} => \E k \in s.counted : k[1] = Unit[s.ip]
    /\ s.counted # {} /\ s.pc # "over" => s.account # NoAddress
    /\ s.pc = "over" /\ s.account # NoAddress => \E k \in s.counted : k[1] = Unit[s.account]
    /\ \A k \in s.full : k[2] + Window <= s.resetAt
    /\ s.full = {} => s.resetAt = 0

AttemptsKeepCount == \A r \in Requests : Attempting(r) => KeepsCount(req[r])

\* A row that an attempt has counted in goes only when its window is closed.
CountedIn(k) == counts[k] = 0 => Closed(k)
CountedRowsStand == \A r \in Requests : Attempting(r) => \A k \in req[r].counted : CountedIn(k)

Inv ==
    /\ TypeOK
    /\ ClocksWereRead
    /\ RowsTellWhatPassed
    /\ AttemptsKeepCount
    /\ CountedRowsStand
    /\ RefusalsAreDeserved

-----------------------------------------------------------------------------
(* Windows. *)

LEMMA WindowsHoldTheirTimes ==
    ASSUME NEW t \in 0..MaxTime
    PROVE  /\ startOfWindow(t) \in Starts
           /\ startOfWindow(t) \in Nat
           /\ startOfWindow(t) <= t /\ t < startOfWindow(t) + Window
<1>1. t % Window \in 0..(Window - 1) /\ t % Window <= t
  BY TimesAreNumbers
<1>2. QED  BY <1>1, TimesAreNumbers DEF startOfWindow, Starts

LEMMA StartsAreNumbers == Starts \subseteq Nat
BY WindowsHoldTheirTimes DEF Starts

LEMMA UnitsAreUnits == \A a \in Addresses : Unit[a] \in Addresses /\ Limit[Unit[a]] \in Nat \ {0}
BY UnitsAreAddresses, LimitsArePositive

LEMMA AttemptsCountKeys ==
    ASSUME TypeOK, NEW r \in Requests, Attempting(r)
    PROVE  req[r] \in Attempts /\ req[r].counted \subseteq Keys /\ req[r].full \subseteq Keys
BY DEF TypeOK, Attempting, Idle, Jobs, Attempts

-----------------------------------------------------------------------------
(* The beginning, and the steps that count nothing. *)

LEMMA InitKeepsInv == Init => Inv
<1> SUFFICES ASSUME Init PROVE Inv
  OBVIOUS
<1>1. TypeOK
  BY TimesAreNumbers DEF Init, TypeOK
<1>2. RowsTellWhatPassed
  BY LimitsArePositive DEF Init, RowsTellWhatPassed, Keys
<1>3. ClocksWereRead /\ AttemptsKeepCount /\ CountedRowsStand /\ RefusalsAreDeserved
  BY DEF Init, Idle, ClocksWereRead, AttemptsKeepCount, CountedRowsStand, Attempting, RefusalsAreDeserved
<1>4. QED  BY <1>1, <1>2, <1>3 DEF Inv

LEMMA TickKeepsInv == Inv /\ Tick => Inv'
<1> SUFFICES ASSUME Inv, Tick PROVE Inv'
  OBVIOUS
<1>1. TypeOK'
  BY TimesAreNumbers DEF Inv, TypeOK, Tick
<1>2. ClocksWereRead'
  <2> SUFFICES ASSUME NEW r \in Requests
               PROVE /\ req[r].pc = "count" => req[r].readAt <= now + 1 /\ now + 1 <= req[r].readAt + Patience
                     /\ req[r].pc = "clean" => req[r].readAt <= now + 1
    BY DEF ClocksWereRead, Tick
  <2>1. req[r].pc \in {"count", "clean"} => req[r].readAt \in Nat
    BY DEF Inv, TypeOK, Idle, Attempts, Jobs
  <2>2. QED  BY <2>1, TimesAreNumbers DEF Inv, TypeOK, ClocksWereRead, Tick
<1>3. \A k \in Keys : Closed(k) => Closed(k)'
  <2> SUFFICES ASSUME NEW k \in Keys, Closed(k) PROVE Closed(k)'
    OBVIOUS
  <2>1. k[2] \in Nat
    BY StartsAreNumbers DEF Keys
  <2>2. QED  BY <2>1, TimesAreNumbers DEF Inv, TypeOK, Tick, Closed
<1>4. RowsTellWhatPassed'
  BY <1>3 DEF Inv, RowsTellWhatPassed, Tick
<1>5. CountedRowsStand'
  <2> SUFFICES ASSUME NEW r \in Requests, Attempting(r), NEW k \in req[r].counted, CountedIn(k)
               PROVE  CountedIn(k)'
    BY DEF Inv, CountedRowsStand, Attempting, Tick
  <2>1. k \in Keys
    BY AttemptsCountKeys DEF Inv
  <2>2. QED  BY <2>1, <1>3 DEF CountedIn, Tick
<1>6. AttemptsKeepCount' /\ RefusalsAreDeserved'
  BY DEF Inv, Tick, AttemptsKeepCount, Attempting, RefusalsAreDeserved
<1>7. QED  BY <1>1, <1>2, <1>4, <1>5, <1>6 DEF Inv

\* A step of one request that touches no row keeps the invariant, if its new
\* state is in order.
LEMMA MovesKeepInv ==
    ASSUME Inv, NEW r \in Requests, NEW state \in {Idle} \cup Attempts \cup Jobs,
           req' = [req EXCEPT ![r] = state], UNCHANGED <<now, counts, passed>>,
           state.pc = "count" => state.readAt <= now /\ now <= state.readAt + Patience,
           state.pc = "clean" => state.readAt <= now,
           state.pc \in {"clock", "count", "over"} =>
               /\ KeepsCount(state)
               /\ \A k \in state.full : passed[k] = Limit[k[1]]
               /\ \A k \in state.counted : CountedIn(k)
    PROVE  Inv'
<1>1. TypeOK'
  BY DEF Inv, TypeOK
<1>2. ClocksWereRead'
  BY DEF Inv, TypeOK, ClocksWereRead
<1>3. RowsTellWhatPassed'
  BY DEF Inv, RowsTellWhatPassed, Closed
<1>4. \A q \in Requests : req'[q] = IF q = r THEN state ELSE req[q]
  BY DEF Inv, TypeOK
<1>5. AttemptsKeepCount' /\ CountedRowsStand' /\ RefusalsAreDeserved'
  BY <1>4 DEF Inv, AttemptsKeepCount, CountedRowsStand, CountedIn, Closed, Attempting, RefusalsAreDeserved
<1>6. QED  BY <1>1, <1>2, <1>3, <1>5 DEF Inv

LEMMA BeginsKeepInv ==
    ASSUME Inv, NEW r \in Requests,
           \/ \E ip \in IPs, account \in (Addresses \ IPs) \cup {NoAddress} : Attempt(r, ip, account)
           \/ DeleteExpiredBegin(r)
           \/ End(r)
    PROVE  Inv'
<1>1. ASSUME NEW ip \in IPs, NEW account \in (Addresses \ IPs) \cup {NoAddress}, Attempt(r, ip, account)
      PROVE  Inv'
  <2> DEFINE state == [pc |-> "clock", ip |-> ip, account |-> account, readAt |-> 0,
                       counted |-> {}, full |-> {}, resetAt |-> 0]
  <2>1. state \in Attempts
    BY TimesAreNumbers DEF Attempts
  <2>2. KeepsCount(state)
    BY DEF KeepsCount
  <2>3. QED  BY <1>1, <2>1, <2>2, MovesKeepInv DEF Attempt, Begin
<1>2. CASE DeleteExpiredBegin(r)
  <2>1. [pc |-> "clean", readAt |-> now] \in Jobs
    BY DEF Inv, TypeOK, Jobs
  <2>2. now <= now
    BY TimesAreNumbers DEF Inv, TypeOK
  <2>3. QED  BY <1>2, <2>1, <2>2, MovesKeepInv DEF DeleteExpiredBegin, Begin
<1>3. CASE End(r)
  BY <1>3, MovesKeepInv DEF End, Idle
<1>4. QED  BY <1>1, <1>2, <1>3

LEMMA ReadClockKeepsInv ==
    ASSUME Inv, NEW r \in Requests, ReadClock(r)
    PROVE  Inv'
<1> DEFINE state == [req[r] EXCEPT !.pc = "count", !.readAt = now]
<1>1. req[r] \in Attempts
  BY DEF Inv, TypeOK, ReadClock, Idle, Jobs
<1>2. state \in Attempts
  BY <1>1 DEF Inv, TypeOK, Attempts
<1>3. KeepsCount(state)
  BY <1>1 DEF Inv, AttemptsKeepCount, Attempting, KeepsCount, Attempts, ReadClock
<1>4. \A k \in state.full : passed[k] = Limit[k[1]]
  BY <1>1 DEF Inv, RefusalsAreDeserved, Attempts, ReadClock
<1>5. \A k \in state.counted : CountedIn(k)
  BY <1>1 DEF Inv, CountedRowsStand, Attempting, Attempts, ReadClock
<1>6. state.pc = "count" /\ state.readAt = now
  BY <1>1 DEF Attempts
<1>7. now <= now /\ now <= now + Patience
  BY TimesAreNumbers DEF Inv, TypeOK
<1>8. req' = [req EXCEPT ![r] = state]
  BY DEF ReadClock
<1> HIDE DEF state
<1>9. QED  BY <1>2, <1>3, <1>4, <1>5, <1>6, <1>7, <1>8, MovesKeepInv DEF ReadClock

LEMMA DeleteExpiredKeepsInv ==
    ASSUME Inv, NEW r \in Requests, DeleteExpired(r)
    PROVE  Inv'
<1>1. /\ req[r].readAt \in Nat /\ req[r].readAt <= now
      /\ now \in Nat
  BY DEF Inv, TypeOK, ClocksWereRead, DeleteExpired, Idle, Attempts, Jobs
<1>2. \A q \in Requests : req'[q] = IF q = r THEN Idle ELSE req[q]
  BY DEF Inv, TypeOK, DeleteExpired
<1>3. TypeOK'
  BY DEF Inv, TypeOK, DeleteExpired
<1>4. \A k \in Keys : /\ counts'[k] \in {0, counts[k]}
                     /\ counts'[k] = 0 /\ counts[k] > 0 => Closed(k)
  <2> SUFFICES ASSUME NEW k \in Keys
               PROVE  /\ counts'[k] \in {0, counts[k]}
                      /\ counts'[k] = 0 /\ counts[k] > 0 => Closed(k)
    OBVIOUS
  <2>1. k[2] \in Nat
    BY StartsAreNumbers DEF Keys
  <2>2. counts'[k] = IF Expired(k[2], req[r].readAt) THEN 0 ELSE counts[k]
    BY DEF DeleteExpired
  <2>3. Expired(k[2], req[r].readAt) => Closed(k)
    BY <1>1, <2>1, TimesAreNumbers, RowsOutliveAttempts DEF Expired, Closed
  <2>4. QED  BY <2>2, <2>3
<1>5. RowsTellWhatPassed'
  BY <1>4 DEF Inv, TypeOK, RowsTellWhatPassed, DeleteExpired, Closed
<1>6. CountedRowsStand'
  <2> SUFFICES ASSUME NEW q \in Requests, Attempting(q), NEW k \in req[q].counted, CountedIn(k)
               PROVE  CountedIn(k)'
    BY <1>2 DEF Inv, Idle, CountedRowsStand, Attempting
  <2>1. k \in Keys
    BY AttemptsCountKeys DEF Inv
  <2>2. counts[k] \in Nat
    BY <2>1 DEF Inv, TypeOK
  <2>3. QED  BY <2>1, <2>2, <1>4 DEF CountedIn, Closed, DeleteExpired
<1>7. ClocksWereRead' /\ AttemptsKeepCount' /\ RefusalsAreDeserved'
  BY <1>2 DEF Inv, Idle, DeleteExpired, ClocksWereRead, AttemptsKeepCount, Attempting, RefusalsAreDeserved
<1>8. QED  BY <1>3, <1>5, <1>6, <1>7 DEF Inv

-----------------------------------------------------------------------------
(* The step that counts. *)

LEMMA CountedAttemptsAreAttempts ==
    ASSUME NEW s \in Attempts, NEW pc \in {"clock", "count", "over"},
           NEW key \in Keys, NEW full \in SUBSET Keys, NEW resetAt \in Nat
    PROVE  [s EXCEPT !.pc = pc, !.readAt = 0, !.counted = @ \cup {key},
                     !.full = full, !.resetAt = resetAt] \in Attempts
<1>1. 0 \in 0..MaxTime
  BY TimesAreNumbers
<1>2. s.counted \cup {key} \in SUBSET Keys
  BY DEF Attempts
<1> DEFINE counted == s.counted \cup {key}
<1> HIDE DEF counted
<1>3. [s EXCEPT !.pc = pc, !.readAt = 0, !.counted = counted, !.full = full, !.resetAt = resetAt] \in Attempts
  BY <1>1, <1>2 DEF Attempts, counted
<1>4. QED  BY <1>3 DEF counted

LEMMA CountKeepsInv ==
    ASSUME Inv, NEW r \in Requests, Count(r)
    PROVE  Inv'
<1> DEFINE s == req[r]
           start == startOfWindow(s.readAt)
           key == <<Unit[Checked(s)], start>>
           limit == Limit[Unit[Checked(s)]]
           count == counts[key] + 1
           ok == count <= limit
           resetAt == IF ~ok /\ s.resetAt < start + Window THEN start + Window ELSE s.resetAt
           pc == IF s.counted = {} /\ s.account # NoAddress THEN "clock" ELSE "over"
           full == IF ok THEN s.full ELSE s.full \cup {key}
           state == [s EXCEPT !.pc = pc, !.readAt = 0, !.counted = @ \cup {key},
                              !.full = full, !.resetAt = resetAt]
<1>1. s \in Attempts /\ s.pc = "count"
  BY DEF Inv, TypeOK, Count, Idle, Jobs
<1>2. /\ counts' = [counts EXCEPT ![key] = count]
      /\ passed' = IF ok THEN [passed EXCEPT ![key] = @ + 1] ELSE passed
      /\ req' = [req EXCEPT ![r] = state]
      /\ now' = now
  BY DEF Count, KeyOf, Allowed, Remains
<1>3. Checked(s) \in Addresses
  BY <1>1, UnitsAreAddresses DEF Inv, AttemptsKeepCount, Attempting, KeepsCount, Attempts, Checked
<1>4. /\ key \in Keys /\ key[1] = Unit[Checked(s)] /\ key[2] = start
      /\ limit \in Nat \ {0} /\ limit = Limit[key[1]]
      /\ start \in Nat /\ start <= s.readAt /\ s.readAt < start + Window
      /\ s.readAt \in Nat
  BY <1>1, <1>3, UnitsAreUnits, WindowsHoldTheirTimes DEF Keys, Attempts
<1>5. ~Closed(key)
  <2>1. now \in Nat /\ now <= s.readAt + Patience
    BY <1>1 DEF Inv, TypeOK, ClocksWereRead
  <2>2. QED  BY <1>4, <2>1, TimesAreNumbers DEF Closed
<1>6. /\ counts[key] \in Nat /\ passed[key] \in Nat
      /\ counts[key] <= limit => passed[key] = counts[key]
      /\ counts[key] > limit => passed[key] = limit
  <2>1. counts[key] \in Nat /\ passed[key] \in Nat
    BY <1>4 DEF Inv, TypeOK
  <2>2. counts[key] = 0 => passed[key] = 0
    BY <1>4, <1>5, <2>1 DEF Inv, RowsTellWhatPassed
  <2>3. counts[key] > 0 => passed[key] = IF counts[key] <= limit THEN counts[key] ELSE limit
    BY <1>4 DEF Inv, RowsTellWhatPassed
  <2>4. QED  BY <1>4, <2>1, <2>2, <2>3
<1>7. /\ ok => passed'[key] = count /\ passed[key] < limit
      /\ ~ok => passed'[key] = limit
      /\ counts'[key] = count
      /\ \A k \in Keys : k # key => passed'[k] = passed[k] /\ counts'[k] = counts[k]
  <2> HIDE DEF key, limit
  <2>1. counts \in [Keys -> Nat] /\ passed \in [Keys -> Nat]
    BY DEF Inv, TypeOK
  <2>2. QED  BY <1>2, <1>4, <1>6, <2>1
<1>8. state \in Attempts
  <2>1. resetAt \in Nat
    BY <1>1, <1>4, TimesAreNumbers DEF Attempts
  <2>2. pc \in {"clock", "over"}
    OBVIOUS
  <2>3. full \in SUBSET Keys
    BY <1>1, <1>4 DEF Attempts
  <2> HIDE DEF resetAt, pc, full, key
  <2>4. QED  BY <1>1, <1>4, <2>1, <2>2, <2>3, CountedAttemptsAreAttempts
<1>9. TypeOK'
  <2> HIDE DEF state, key, limit
  <2>1. QED  BY <1>2, <1>4, <1>6, <1>8 DEF Inv, TypeOK
<1>10. RowsTellWhatPassed'
  <2> SUFFICES ASSUME NEW k \in Keys
               PROVE  /\ passed'[k] <= Limit[k[1]]
                      /\ counts'[k] > 0 => passed'[k] = IF counts'[k] <= Limit[k[1]] THEN counts'[k] ELSE Limit[k[1]]
                      /\ counts'[k] = 0 /\ passed'[k] > 0 => Closed(k)
    BY <1>2 DEF RowsTellWhatPassed, Closed
  <2> HIDE DEF key, limit
  <2>1. CASE k = key
    BY <2>1, <1>4, <1>6, <1>7
  <2>2. CASE k # key
    BY <2>2, <1>7 DEF Inv, RowsTellWhatPassed
  <2>3. QED  BY <2>1, <2>2
<1>11. /\ state.pc = pc /\ state.counted = s.counted \cup {key} /\ state.full = full
       /\ state.resetAt = resetAt /\ state.ip = s.ip /\ state.account = s.account
  BY <1>1 DEF Attempts
<1>12. KeepsCount(state)
  <2>1. KeepsCount(s)
    BY <1>1 DEF Inv, AttemptsKeepCount, Attempting
  <2>2. \E k \in s.counted \cup {key} : k[1] = Unit[s.ip]
    BY <1>4, <2>1 DEF KeepsCount, Checked
  <2>3. pc # "over" => s.account # NoAddress
    OBVIOUS
  <2>4. pc = "over" /\ s.account # NoAddress => \E k \in s.counted \cup {key} : k[1] = Unit[s.account]
    BY <1>4 DEF Checked
  <2>5. \A k \in full : k[2] + Window <= resetAt
    <3> SUFFICES ASSUME NEW k \in full PROVE k[2] + Window <= resetAt
      OBVIOUS
    <3>1. k[2] \in Nat
      BY <1>1, <1>4, StartsAreNumbers DEF Attempts, Keys
    <3>2. s.resetAt \in Nat
      BY <1>1 DEF Attempts
    <3>3. CASE k \in s.full
      BY <3>1, <3>2, <3>3, <1>4, <2>1, TimesAreNumbers DEF KeepsCount
    <3>4. CASE k = key /\ ~ok
      <4> HIDE DEF ok
      <4>1. QED  BY <3>2, <3>4, <1>4, TimesAreNumbers
    <3>5. QED  BY <3>3, <3>4
  <2>6. full = {} => resetAt = 0
    BY <2>1 DEF KeepsCount
  <2> HIDE DEF state, pc, full, resetAt, key
  <2>7. QED  BY <1>11, <2>2, <2>3, <2>4, <2>5, <2>6 DEF KeepsCount
<1>13. AttemptsKeepCount' /\ ClocksWereRead'
  <2>1. \A q \in Requests : req'[q] = IF q = r THEN state ELSE req[q]
    BY <1>2 DEF Inv, TypeOK
  <2>2. state.pc \in {"clock", "over"}
    BY <1>11
  <2> HIDE DEF state
  <2>3. QED  BY <2>1, <2>2, <1>2, <1>12 DEF Inv, AttemptsKeepCount, Attempting, ClocksWereRead
<1>14. RefusalsAreDeserved'
  <2> SUFFICES ASSUME NEW q \in Requests, req'[q].pc \in {"clock", "count", "over"}, NEW k \in req'[q].full
               PROVE  passed'[k] = Limit[k[1]]
    BY DEF RefusalsAreDeserved
  <2>1. req'[q] = IF q = r THEN state ELSE req[q]
    BY <1>2 DEF Inv, TypeOK
  <2>2. CASE k = key /\ ~ok
    BY <2>2, <1>4, <1>7
  <2>3. CASE q = r /\ k \in s.full
    <3>1. passed[k] = Limit[k[1]] /\ k \in Keys
      BY <1>1, <2>3 DEF Inv, RefusalsAreDeserved, Attempts
    <3> HIDE DEF key, limit
    <3>2. QED  BY <3>1, <1>4, <1>6, <1>7
  <2>4. CASE q # r
    <3>1. req[q] \in Attempts
      BY <2>1, <2>4 DEF Inv, TypeOK, Idle, Jobs
    <3>2. passed[k] = Limit[k[1]] /\ k \in Keys
      BY <3>1, <2>1, <2>4 DEF Inv, RefusalsAreDeserved, Attempts
    <3> HIDE DEF key, limit
    <3>3. QED  BY <3>2, <1>4, <1>6, <1>7
  <2>5. QED
    <3>1. q = r => k \in full
      BY <2>1, <1>11
    <3>2. QED  BY <3>1, <2>2, <2>3, <2>4
<1>15. CountedRowsStand'
  <2> SUFFICES ASSUME NEW q \in Requests, req'[q].pc \in {"clock", "count", "over"}, NEW k \in req'[q].counted
               PROVE  counts'[k] = 0 => Closed(k)
    BY <1>2 DEF CountedRowsStand, Attempting, CountedIn, Closed
  <2>1. req'[q] = IF q = r THEN state ELSE req[q]
    BY <1>2 DEF Inv, TypeOK
  <2>2. CASE k = key
    BY <2>2, <1>6, <1>7
  <2>3. ASSUME NEW p \in Requests, Attempting(p), k \in req[p].counted, k # key
        PROVE  counts'[k] = 0 => Closed(k)
    <3>1. k \in Keys /\ CountedIn(k)
      BY <2>3, AttemptsCountKeys DEF Inv, CountedRowsStand
    <3> HIDE DEF key
    <3>2. QED  BY <3>1, <2>3, <1>7 DEF CountedIn
  <2>4. CASE q = r /\ k # key
    <3>1. k \in s.counted
      BY <2>1, <2>4, <1>11
    <3>2. QED  BY <3>1, <2>3, <2>4, <1>1 DEF Attempting
  <2>5. CASE q # r /\ k # key
    BY <2>1, <2>3, <2>5 DEF Attempting
  <2>6. QED  BY <2>2, <2>4, <2>5
<1>16. QED  BY <1>9, <1>10, <1>13, <1>14, <1>15 DEF Inv

-----------------------------------------------------------------------------
(* The theorems. *)

LEMMA NextKeepsInv == Inv /\ [Next]_vars => Inv'
<1> SUFFICES ASSUME Inv, [Next]_vars PROVE Inv'
  OBVIOUS
<1>1. CASE Tick
  BY <1>1, TickKeepsInv
<1>2. ASSUME NEW r \in Requests,
             \/ \E ip \in IPs, account \in (Addresses \ IPs) \cup {NoAddress} : Attempt(r, ip, account)
             \/ DeleteExpiredBegin(r) \/ Step(r) \/ End(r)
      PROVE  Inv'
  BY <1>2, BeginsKeepInv, ReadClockKeepsInv, DeleteExpiredKeepsInv, CountKeepsInv DEF Step
<1>3. CASE UNCHANGED vars
  BY <1>3 DEF vars, Inv, TypeOK, ClocksWereRead, RowsTellWhatPassed, Closed,
              AttemptsKeepCount, CountedRowsStand, CountedIn, Attempting, RefusalsAreDeserved
<1>4. QED  BY <1>1, <1>2, <1>3 DEF Next

THEOREM InvHolds == Spec => []Inv
<1>1. QED  BY InitKeepsInv, NextKeepsInv, PTL DEF Spec

\* The types of RateLimit hold for every instance.
THEOREM TypesHold == Spec => []TypeOK
BY InvHolds, PTL DEF Inv

\* Limiter.Check never allows more checks of a unit in a window than its limit,
\* whatever the job of the clean-up does.
THEOREM LimitsAreKept == Spec => []WindowsKeepTheLimit
<1>1. Inv => WindowsKeepTheLimit
  BY DEF Inv, RowsTellWhatPassed, WindowsKeepTheLimit
<1>2. QED  BY <1>1, InvHolds, PTL

\* Limiter.Check refuses only when the limit has been used up in the window.
THEOREM RefusalsHaveReasons == Spec => []RefusalsAreDeserved
BY InvHolds, PTL DEF Inv

\* An attempt that has been decided was counted for each of its units, in rows
\* that stay while their windows run, and is told a time that suits all of them.
THEOREM AttemptsAreCounted == Spec => []DecidedAttemptsAreCounted
<1>1. Inv => DecidedAttemptsAreCounted
  <2> SUFFICES ASSUME Inv, NEW r \in Requests, req[r].pc = "over"
               PROVE  /\ \A a \in {req[r].ip, req[r].account} \ {NoAddress} :
                             \E k \in req[r].counted : k[1] = Unit[a]
                      /\ \A k \in req[r].counted : now < k[2] + Window => counts[k] > 0
                      /\ \A k \in req[r].full : k[2] + Window <= req[r].resetAt
                      /\ req[r].full = {} => req[r].resetAt = 0
    BY DEF DecidedAttemptsAreCounted
  <2>1. ASSUME NEW k \in req[r].counted, now < k[2] + Window
        PROVE  counts[k] > 0
    <3>1. k \in Keys /\ CountedIn(k)
      BY AttemptsCountKeys DEF Inv, Attempting, CountedRowsStand
    <3>2. k[2] \in Nat
      BY <3>1, StartsAreNumbers DEF Keys
    <3>3. counts[k] \in Nat /\ now \in Nat
      BY <3>1 DEF Inv, TypeOK
    <3>4. QED  BY <2>1, <3>1, <3>2, <3>3, TimesAreNumbers DEF CountedIn, Closed
  <2>2. QED  BY <2>1 DEF Inv, AttemptsKeepCount, Attempting, KeepsCount
<1>2. QED  BY <1>1, InvHolds, PTL

\* DeleteExpired takes no row of a window that is still running.
THEOREM RunningWindowsKeepTheirCounts == Spec => RunningWindowsStay
<1>1. Inv /\ [Next]_vars => [\A k \in Keys : now < k[2] + Window => counts'[k] >= counts[k]]_vars
  <2> SUFFICES ASSUME Inv, Next, NEW k \in Keys, now < k[2] + Window
               PROVE  counts'[k] >= counts[k]
    OBVIOUS
  <2> k[2] \in Nat
    BY StartsAreNumbers DEF Keys
  <2>1. counts \in [Keys -> Nat] /\ counts[k] \in Nat /\ now \in Nat /\ k[2] \in Nat
    BY DEF Inv, TypeOK
  <2>2. ASSUME NEW r \in Requests, DeleteExpired(r)
        PROVE  counts'[k] >= counts[k]
    <3>1. req[r].readAt \in Nat /\ req[r].readAt <= now
      BY <2>2 DEF Inv, TypeOK, ClocksWereRead, DeleteExpired, Idle, Attempts, Jobs
    <3>2. ~Expired(k[2], req[r].readAt)
      BY <2>1, <3>1, TimesAreNumbers, RowsOutliveAttempts DEF Expired
    <3>3. QED  BY <2>1, <2>2, <3>2 DEF DeleteExpired
  <2>3. ASSUME NEW r \in Requests, Count(r)
        PROVE  counts'[k] >= counts[k]
    BY <2>1, <2>3 DEF Count
  <2>4. CASE UNCHANGED counts
    BY <2>1, <2>4
  <2>5. QED
    BY <2>2, <2>3, <2>4 DEF Next, Step, Tick, Attempt, DeleteExpiredBegin, Begin, ReadClock, End
<1>2. QED  BY <1>1, InvHolds, PTL DEF Spec, RunningWindowsStay

=============================================================================
