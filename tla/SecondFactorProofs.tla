------------------------- MODULE SecondFactorProofs -------------------------
(***************************************************************************)
(* Theorems about SecondFactor, for any number of requests, secrets, steps *)
(* and recovery codes.                                                     *)
(***************************************************************************)
EXTENDS SecondFactor, TLAPS

-----------------------------------------------------------------------------
(* The invariant. *)

\* What a request in state s relies on: who enables or removes the setting
\* holds it as it was found, who uses a recovery code holds that.
InOrder(r, s) ==
    /\ s.pc \in {"enable", "codes", "signin"} => s.secret <= made
    /\ s.pc = "codes" =>
          settingLock = r /\ setting # NoRow /\ ~setting.enabled /\ setting.secret = s.secret
    /\ s.pc = "sweep" =>
          IF s.holds
          THEN /\ settingLock = r /\ setting # NoRow
               /\ s.step # 0 => setting.enabled /\ setting.lastStep < s.step
          ELSE s.step = 0
    /\ s.pc = "session" => codeLock[s.code] = r /\ s.code \in codes \ spent

RequestsAreInOrder == \A r \in Requests : InOrder(r, req[r])

\* What has passed belongs to secrets that were made; of the setting, to
\* steps that its row remembers, and of its recovery codes, to spent ones.
PassesAreRemembered ==
    /\ setting # NoRow => setting.secret <= made
    /\ \A s \in Secrets, k \in Steps : passed[<<s, k>>] # 0 => s <= made
    /\ \A s \in Secrets, n \in CodeNumbers : recovered[<<s, n>>] # 0 => s <= made
    /\ setting # NoRow =>
          /\ \A k \in Steps : passed[<<setting.secret, k>>] # 0 => setting.enabled /\ k <= setting.lastStep
          /\ ~setting.enabled => \A n \in CodeNumbers : recovered[<<setting.secret, n>>] = 0
    /\ \A c \in codes \ spent : recovered[c] = 0

Inv ==
    /\ TypeOK
    /\ RequestsAreInOrder
    /\ PassesAreRemembered
    /\ RecoveryCodesPassOnce
    /\ CodesBelongToTheSetting
    /\ EnabledSecretsWereShown

-----------------------------------------------------------------------------
(* Types, locks, and steps that write nothing. *)

LEMMA RowsHaveTheirFields ==
    ASSUME TypeOK, setting # NoRow
    PROVE  /\ setting.secret \in Secrets /\ setting.enabled \in BOOLEAN
           /\ setting.enabled => setting.lastStep \in Steps
           /\ ~setting.enabled => setting \in PendingRows
           /\ setting.enabled => setting \in EnabledRows
BY DEF TypeOK, PendingRows, EnabledRows

LEMMA NumbersAreNumbers ==
    ASSUME TypeOK
    PROVE  /\ made \in Nat /\ MaxSecrets \in Nat /\ MaxTime \in Nat
           /\ Secrets \subseteq Nat \ {0} /\ Steps \subseteq Nat \ {0}
BY BoundsAreNumbers DEF TypeOK, Secrets, Steps

\* The fields of a request, by where it stands.
LEMMA RequestsHaveTheirFields ==
    ASSUME TypeOK, NEW r \in Requests
    PROVE  /\ req[r].pc \in {"enable", "codes", "signin"} => req[r].secret \in Secrets /\ req[r].step \in Steps
           /\ req[r].pc = "enable" => req[r] \in [pc: {"enable"}, secret: Secrets, step: Steps]
           /\ req[r].pc = "disable" => req[r].step \in Steps \cup {0}
           /\ req[r].pc = "recover" => req[r] \in [pc: {"recover"}, code: RecoveryCodes]
           /\ req[r].pc = "session" => req[r].code \in RecoveryCodes
           /\ req[r].pc = "sweep" => req[r].step \in Steps \cup {0} /\ req[r].holds \in BOOLEAN /\ req[r].leave \in BOOLEAN
BY DEF TypeOK, RequestStates, Idle

LEMMA HoldersAreApart == \A r \in Requests : r # Nobody
BY NobodyIsNobody

LEMMA FreedLocks ==
    ASSUME TypeOK, NEW r \in Requests, FreeLocks(r)
    PROVE  /\ settingLock' \in Requests \cup {Nobody}
           /\ codeLock' \in [RecoveryCodes -> Requests \cup {Nobody}]
           /\ settingLock # r => settingLock' = settingLock
           /\ \A c \in RecoveryCodes : codeLock[c] # r => codeLock'[c] = codeLock[c]
BY DEF TypeOK, FreeLocks

\* A request that moves, takes what is free or gives back its own, and writes
\* nothing, keeps the invariant if its new state is in order.
LEMMA MovesKeepInv ==
    ASSUME Inv, NEW r \in Requests, NEW state \in RequestStates,
           req' = [req EXCEPT ![r] = state], UNCHANGED <<rows, history>>, now' \in 1..MaxTime,
           settingLock' \in Requests \cup {Nobody},
           codeLock' \in [RecoveryCodes -> Requests \cup {Nobody}],
           settingLock \notin {Nobody, r} => settingLock' = settingLock,
           \A c \in RecoveryCodes : codeLock[c] \notin {Nobody, r} => codeLock'[c] = codeLock[c],
           \A s : s = state => InOrder(r, s)'
    PROVE  Inv'
<1> USE DEF rows, history
<1>1. \A q \in Requests : req'[q] = IF q = r THEN state ELSE req[q]
  BY DEF Inv, TypeOK
<1>2. TypeOK'
  BY DEF Inv, TypeOK
<1>3. RequestsAreInOrder'
  <2> SUFFICES ASSUME NEW q \in Requests
               PROVE  InOrder(q, req[q])'
    BY DEF RequestsAreInOrder
  <2>1. CASE q = r
    BY <1>1, <2>1 DEF InOrder
  <2>2. CASE q # r
    <3>1. req'[q] = req[q] /\ InOrder(q, req[q])
      BY <1>1, <2>2 DEF Inv, RequestsAreInOrder
    <3>2. req[q].pc = "session" => req[q].code \in RecoveryCodes
      BY RequestsHaveTheirFields DEF Inv
    <3>3. QED  BY <2>2, <3>1, <3>2, HoldersAreApart DEF InOrder
  <2>3. QED  BY <2>1, <2>2
<1>4. PassesAreRemembered'
  BY DEF Inv, PassesAreRemembered
<1>5. RecoveryCodesPassOnce' /\ CodesBelongToTheSetting' /\ EnabledSecretsWereShown'
  BY DEF Inv, RecoveryCodesPassOnce, CodesBelongToTheSetting, EnabledSecretsWereShown, IsEnabled
<1>6. QED  BY <1>2, <1>3, <1>4, <1>5 DEF Inv

LEMMA RefuseKeepsInv ==
    ASSUME Inv, NEW r \in Requests, Refuse(r)
    PROVE  Inv'
<1>1. /\ FreeLocks(r) /\ TypeOK /\ req' = [req EXCEPT ![r] = Idle]
      /\ UNCHANGED <<rows, history>> /\ now' \in 1..MaxTime
  BY DEF Inv, TypeOK, Refuse, Return
<1>2. Idle \in RequestStates /\ \A s : s = Idle => InOrder(r, s)'
  BY DEF Idle, RequestStates, InOrder
<1>3. /\ settingLock' \in Requests \cup {Nobody}
      /\ codeLock' \in [RecoveryCodes -> Requests \cup {Nobody}]
      /\ settingLock # r => settingLock' = settingLock
      /\ \A c \in RecoveryCodes : codeLock[c] # r => codeLock'[c] = codeLock[c]
  BY <1>1, FreedLocks
<1>4. QED  BY <1>1, <1>2, <1>3, MovesKeepInv

LEMMA BeginKeepsInv ==
    ASSUME Inv, NEW r \in Requests, NEW state \in RequestStates, Begin(r, state),
           state.pc \in {"enable", "signin"} => state.secret <= made,
           state.pc \notin {"codes", "sweep", "session"}
    PROVE  Inv'
<1>1. /\ req' = [req EXCEPT ![r] = state] /\ UNCHANGED <<rows, history>> /\ now' \in 1..MaxTime
      /\ settingLock' = settingLock /\ codeLock' = codeLock
  BY DEF Inv, TypeOK, Begin, GoTo, locks
<1>2. \A s : s = state => InOrder(r, s)'
  BY <1>1 DEF InOrder, rows
<1>3. QED  BY <1>1, <1>2, MovesKeepInv DEF Inv, TypeOK

LEMMA BeginRequestKeepsInv ==
    ASSUME Inv, NEW r \in Requests, BeginRequest(r)
    PROVE  Inv'
<1>1. CASE PrepareTwoFactorAuthBegin(r)
  <2>1. [pc |-> "prepare"] \in RequestStates
    BY DEF RequestStates
  <2>2. QED  BY <1>1, <2>1, BeginKeepsInv DEF PrepareTwoFactorAuthBegin
<1>2. ASSUME NEW step \in AcceptedSteps, EnableTwoFactorAuthBegin(r, step)
      PROVE  Inv'
  <2> DEFINE state == [pc |-> "enable", secret |-> setting.secret, step |-> step]
  <2>1. state \in RequestStates
    BY <1>2, RowsHaveTheirFields DEF Inv, RequestStates, AcceptedSteps, EnableTwoFactorAuthBegin
  <2>2. setting.secret <= made
    BY <1>2 DEF Inv, PassesAreRemembered, EnableTwoFactorAuthBegin
  <2>3. Begin(r, state)
    BY <1>2 DEF EnableTwoFactorAuthBegin
  <2>4. QED  BY <2>1, <2>2, <2>3, BeginKeepsInv
<1>3. ASSUME NEW step \in AcceptedSteps, CreateSignInTwoFactorBegin(r, step)
      PROVE  Inv'
  <2> DEFINE state == [pc |-> "signin", secret |-> setting.secret, step |-> step]
  <2>1. state \in RequestStates
    BY <1>3, RowsHaveTheirFields DEF Inv, RequestStates, AcceptedSteps, CreateSignInTwoFactorBegin, IsEnabled
  <2>2. setting.secret <= made
    BY <1>3 DEF Inv, PassesAreRemembered, CreateSignInTwoFactorBegin, IsEnabled
  <2>3. Begin(r, state)
    BY <1>3 DEF CreateSignInTwoFactorBegin
  <2>4. QED  BY <2>1, <2>2, <2>3, BeginKeepsInv
<1>4. ASSUME NEW code \in (1..made) \X CodeNumbers, CreateSignInTwoFactorRecoveryBegin(r, code)
      PROVE  Inv'
  <2> DEFINE state == [pc |-> "recover", code |-> code]
  <2>1. 1..made \subseteq Secrets
    BY NumbersAreNumbers DEF Inv, TypeOK, Secrets
  <2>2. state \in RequestStates
    BY <2>1 DEF RequestStates, RecoveryCodes
  <2>3. QED  BY <1>4, <2>2, BeginKeepsInv DEF CreateSignInTwoFactorRecoveryBegin
<1>5. ASSUME NEW step \in AcceptedSteps \cup {0}, DisableTwoFactorAuthBegin(r, step)
      PROVE  Inv'
  <2> DEFINE state == [pc |-> "disable", secret |-> setting.secret, step |-> step]
  <2>1. state \in RequestStates
    BY <1>5, RowsHaveTheirFields DEF Inv, RequestStates, AcceptedSteps, DisableTwoFactorAuthBegin, IsEnabled
  <2>2. QED  BY <1>5, <2>1, BeginKeepsInv DEF DisableTwoFactorAuthBegin
<1>6. CASE ForceDisableTwoFactorAuthBegin(r)
  <2>1. [pc |-> "clear"] \in RequestStates
    BY DEF RequestStates
  <2>2. QED  BY <1>6, <2>1, BeginKeepsInv DEF ForceDisableTwoFactorAuthBegin
<1>7. CASE DeleteAccountBegin(r)
  <2>1. [pc |-> "leave"] \in RequestStates
    BY DEF RequestStates
  <2>2. QED  BY <1>7, <2>1, BeginKeepsInv DEF DeleteAccountBegin
<1>8. QED  BY <1>1, <1>2, <1>3, <1>4, <1>5, <1>6, <1>7 DEF BeginRequest

LEMMA EnableKeepsInv ==
    ASSUME Inv, NEW r \in Requests, Enable(r)
    PROVE  Inv'
<1> DEFINE state == [req[r] EXCEPT !.pc = "codes"]
<1>1. CASE ~(setting # NoRow /\ ~IsEnabled /\ setting.secret = req[r].secret)
  BY <1>1, RefuseKeepsInv DEF Enable
<1>2. CASE setting # NoRow /\ ~IsEnabled /\ setting.secret = req[r].secret
  <2>1. /\ req[r].pc = "enable" /\ settingLock = Nobody /\ settingLock' = r /\ codeLock' = codeLock
        /\ req' = [req EXCEPT ![r] = state] /\ UNCHANGED <<rows, history>> /\ now' \in 1..MaxTime
    BY <1>2 DEF Inv, TypeOK, Enable, HoldSetting, GoTo
  <2>2. state \in RequestStates /\ state.pc = "codes" /\ state.secret = req[r].secret
    <3>1. req[r] \in [pc: {"enable"}, secret: Secrets, step: Steps]
      BY <2>1, RequestsHaveTheirFields DEF Inv
    <3>2. state \in [pc: {"codes"}, secret: Secrets, step: Steps] /\ state.secret = req[r].secret
      BY <3>1
    <3>3. QED  BY <3>2 DEF RequestStates
  <2>3. req[r].secret <= made
    BY <2>1 DEF Inv, RequestsAreInOrder, InOrder
  <2> HIDE DEF state
  <2>4. \A s : s = state => InOrder(r, s)'
    BY <1>2, <2>1, <2>2, <2>3 DEF InOrder, rows, IsEnabled
  <2>5. QED  BY <2>1, <2>2, <2>4, MovesKeepInv DEF Inv, TypeOK
<1>3. QED  BY <1>1, <1>2

LEMMA UseRecoveryCodeKeepsInv ==
    ASSUME Inv, NEW r \in Requests, UseRecoveryCode(r)
    PROVE  Inv'
<1> DEFINE c == req[r].code
           state == [req[r] EXCEPT !.pc = "session"]
<1>1. CASE c \notin codes \ spent
  BY <1>1, RefuseKeepsInv DEF UseRecoveryCode
<1>2. CASE c \in codes \ spent
  <2>1. /\ req[r].pc = "recover" /\ codeLock[c] = Nobody /\ codeLock' = [codeLock EXCEPT ![c] = r]
        /\ settingLock' = settingLock
        /\ req' = [req EXCEPT ![r] = state] /\ UNCHANGED <<rows, history>> /\ now' \in 1..MaxTime
    BY <1>2 DEF Inv, TypeOK, UseRecoveryCode, GoTo
  <2>2. state \in RequestStates /\ state.pc = "session" /\ state.code = c /\ c \in RecoveryCodes
    <3>1. req[r] \in [pc: {"recover"}, code: RecoveryCodes]
      BY <2>1, RequestsHaveTheirFields DEF Inv
    <3>2. state \in [pc: {"session"}, code: RecoveryCodes] /\ state.code = c
      BY <3>1
    <3>3. QED  BY <3>1, <3>2 DEF RequestStates
  <2> HIDE DEF state, c
  <2>3. /\ codeLock' \in [RecoveryCodes -> Requests \cup {Nobody}] /\ codeLock'[c] = r
        /\ \A d \in RecoveryCodes : codeLock[d] \notin {Nobody, r} => codeLock'[d] = codeLock[d]
    BY <2>1, <2>2 DEF Inv, TypeOK
  <2>4. \A s : s = state => InOrder(r, s)'
    BY <1>2, <2>1, <2>2, <2>3 DEF InOrder, rows
  <2>5. QED  BY <2>1, <2>2, <2>3, <2>4, MovesKeepInv DEF Inv, TypeOK
<1>3. QED  BY <1>1, <1>2

LEMMA DeleteMatchingKeepsInv ==
    ASSUME Inv, NEW r \in Requests, DeleteMatching(r)
    PROVE  Inv'
<1> DEFINE fits == IsEnabled /\ setting.secret = req[r].secret /\ (req[r].step # 0 => IsNewStep(req[r].step))
           state == [pc |-> "sweep", step |-> req[r].step, holds |-> TRUE, leave |-> FALSE]
<1>1. CASE ~fits
  BY <1>1, RefuseKeepsInv DEF DeleteMatching
<1>2. CASE fits
  <2>1. /\ req[r].pc = "disable" /\ settingLock = Nobody /\ settingLock' = r /\ codeLock' = codeLock
        /\ req' = [req EXCEPT ![r] = state] /\ UNCHANGED <<rows, history>> /\ now' \in 1..MaxTime
    BY <1>2 DEF Inv, TypeOK, DeleteMatching, HoldSetting, GoTo
  <2>2. state \in RequestStates
    BY <2>1, RequestsHaveTheirFields DEF Inv, RequestStates
  <2>3. \A s : s = state => InOrder(r, s)'
    BY <1>2, <2>1 DEF InOrder, rows, IsEnabled, IsNewStep
  <2>4. QED  BY <2>1, <2>2, <2>3, MovesKeepInv DEF Inv, TypeOK
<1>3. QED  BY <1>1, <1>2

LEMMA DeleteSettingKeepsInv ==
    ASSUME Inv, NEW r \in Requests, DeleteSetting(r)
    PROVE  Inv'
<1> DEFINE holds == setting # NoRow
           leave == req[r].pc = "leave"
           state == [pc |-> "sweep", step |-> 0, holds |-> holds, leave |-> leave]
<1>1. state \in RequestStates
  BY DEF RequestStates
<1>2. /\ req' = [req EXCEPT ![r] = state] /\ UNCHANGED <<rows, history>> /\ now' \in 1..MaxTime
      /\ codeLock' = codeLock
      /\ IF holds THEN settingLock = Nobody /\ settingLock' = r ELSE settingLock' = settingLock
  BY DEF Inv, TypeOK, DeleteSetting, HoldSetting, GoTo, locks
<1>3. \A s : s = state => InOrder(r, s)'
  <2>1. /\ state.pc = "sweep" /\ state.step = 0 /\ state.holds = holds
        /\ holds => settingLock' = r /\ setting' # NoRow
    BY <1>2 DEF rows
  <2> HIDE DEF state, holds
  <2>2. QED  BY <2>1 DEF InOrder
<1>4. QED  BY <1>1, <1>2, <1>3, MovesKeepInv DEF Inv, TypeOK

-----------------------------------------------------------------------------
(* Steps that write. *)

LEMMA TickKeepsInv ==
    ASSUME Inv, Tick
    PROVE  Inv'
<1> USE DEF Tick, rows, locks, history
<1>1. TypeOK'
  BY BoundsAreNumbers DEF Inv, TypeOK
<1>2. RequestsAreInOrder'
  BY DEF Inv, RequestsAreInOrder, InOrder
<1>3. PassesAreRemembered'
  BY DEF Inv, PassesAreRemembered
<1>4. RecoveryCodesPassOnce' /\ CodesBelongToTheSetting' /\ EnabledSecretsWereShown'
  BY DEF Inv, RecoveryCodesPassOnce, CodesBelongToTheSetting, EnabledSecretsWereShown, IsEnabled
<1>5. QED  BY <1>1, <1>2, <1>3, <1>4 DEF Inv

\* The types of what Return leaves.
LEMMA ReturnsKeepTypes ==
    ASSUME TypeOK, NEW r \in Requests, Return(r)
    PROVE  /\ now' \in 1..MaxTime
           /\ settingLock' \in Requests \cup {Nobody}
           /\ codeLock' \in [RecoveryCodes -> Requests \cup {Nobody}]
           /\ req' \in [Requests -> RequestStates]
           /\ req'[r] = Idle
           /\ \A q \in Requests : q # r => req'[q] = req[q]
           /\ settingLock # r => settingLock' = settingLock
           /\ \A c \in RecoveryCodes : codeLock[c] # r => codeLock'[c] = codeLock[c]
<1>1. Idle \in RequestStates
  BY DEF RequestStates
<1>2. FreeLocks(r) /\ req' = [req EXCEPT ![r] = Idle] /\ now' = now
  BY DEF Return
<1>3. QED  BY <1>1, <1>2, FreedLocks DEF TypeOK

\* A commit leaves in order who holds something else, or what it leaves alone.
LEMMA CommitsKeepOthersInOrder ==
    ASSUME Inv, NEW r \in Requests, Return(r), made' \in Nat, made <= made',
           settingLock \notin {Nobody, r} => setting' = setting,
           \A q \in Requests, c \in codes \ spent :
               q # r /\ codeLock[c] = q => c \in codes' \ spent'
    PROVE  RequestsAreInOrder'
<1> SUFFICES ASSUME NEW q \in Requests
             PROVE  InOrder(q, req[q])'
  BY DEF RequestsAreInOrder
<1>1. CASE q = r
  <2>1. req'[q] = Idle
    BY <1>1, ReturnsKeepTypes DEF Inv
  <2>2. QED  BY <2>1 DEF InOrder, Idle
<1>2. CASE q # r
  <2>1. /\ req'[q] = req[q]
        /\ settingLock # r => settingLock' = settingLock
        /\ \A c \in RecoveryCodes : codeLock[c] # r => codeLock'[c] = codeLock[c]
    BY <1>2, ReturnsKeepTypes DEF Inv
  <2>2. InOrder(q, req[q])
    BY DEF Inv, RequestsAreInOrder
  <2>3. req[q].pc \in {"enable", "codes", "signin"} => req[q].secret <= made'
    BY <2>2, RequestsHaveTheirFields, NumbersAreNumbers DEF Inv, InOrder
  <2>4. req[q].pc = "session" => codeLock'[req[q].code] = q /\ req[q].code \in codes' \ spent'
    BY <1>2, <2>1, <2>2, RequestsHaveTheirFields DEF Inv, InOrder
  <2>5. req[q].pc = "codes" \/ (req[q].pc = "sweep" /\ req[q].holds) =>
            settingLock' = q /\ settingLock = q /\ setting' = setting
    BY <1>2, <2>1, <2>2, HoldersAreApart DEF InOrder
  <2>6. QED  BY <2>1, <2>2, <2>3, <2>4, <2>5 DEF InOrder
<1>3. QED  BY <1>1, <1>2

LEMMA PendingRowsArePending ==
    ASSUME NEW s \in Secrets
    PROVE  /\ [secret |-> s, enabled |-> FALSE, lastStep |-> 0] \in PendingRows
           /\ [secret |-> s, enabled |-> FALSE, lastStep |-> 0] # NoRow
<1>1. [secret |-> s, enabled |-> FALSE, lastStep |-> 0] \in PendingRows
  BY DEF PendingRows
<1>2. QED  BY <1>1, NoRowIsNoSetting

LEMMA UpsertPendingKeepsInv ==
    ASSUME Inv, NEW r \in Requests, UpsertPending(r)
    PROVE  Inv'
<1> DEFINE row == [secret |-> made + 1, enabled |-> FALSE, lastStep |-> 0]
<1>1. /\ made < MaxSecrets /\ settingLock = Nobody /\ made' = made + 1
      /\ setting' = IF IsEnabled THEN setting ELSE row
      /\ Return(r)
      /\ UNCHANGED <<alive, codes, spent, passed, recovered>>
  BY DEF UpsertPending, history
<1>2. made \in Nat /\ made + 1 \in Secrets /\ made' \in 0..MaxSecrets /\ 1..made \subseteq 1..made'
  BY <1>1, NumbersAreNumbers DEF Inv, TypeOK, Secrets
<1>3. row \in PendingRows /\ row # NoRow
  BY <1>2, PendingRowsArePending
<1>4. TypeOK'
  <2>1. setting' \in PendingRows \cup EnabledRows \cup {NoRow}
    BY <1>1, <1>3 DEF Inv, TypeOK
  <2>2. codes' \subseteq (1..made') \X CodeNumbers /\ spent' \subseteq codes'
    BY <1>1, <1>2 DEF Inv, TypeOK
  <2>3. QED  BY <1>1, <1>2, <2>1, <2>2, ReturnsKeepTypes DEF Inv, TypeOK
<1>5. RequestsAreInOrder'
  BY <1>1, <1>2, CommitsKeepOthersInOrder
<1>6. /\ \A s \in Secrets, k \in Steps : passed[<<s, k>>] # 0 => s <= made /\ s # made + 1
      /\ \A s \in Secrets, n \in CodeNumbers : recovered[<<s, n>>] # 0 => s <= made /\ s # made + 1
  BY <1>2, NumbersAreNumbers DEF Inv, PassesAreRemembered
<1>7. CASE IsEnabled
  <2>1. setting' = setting
    BY <1>1, <1>7
  <2>2. PassesAreRemembered'
    <3>1. setting # NoRow => setting.secret <= made'
      BY <1>1, <1>2, RowsHaveTheirFields, NumbersAreNumbers DEF Inv, PassesAreRemembered
    <3>2. /\ \A s \in Secrets, k \in Steps : passed[<<s, k>>] # 0 => s <= made'
          /\ \A s \in Secrets, n \in CodeNumbers : recovered[<<s, n>>] # 0 => s <= made'
      BY <1>1, <1>2, <1>6, NumbersAreNumbers DEF Inv
    <3>3. QED  BY <1>1, <2>1, <3>1, <3>2 DEF Inv, PassesAreRemembered
  <2>3. RecoveryCodesPassOnce' /\ CodesBelongToTheSetting' /\ EnabledSecretsWereShown'
    BY <1>1, <2>1 DEF Inv, RecoveryCodesPassOnce, CodesBelongToTheSetting, EnabledSecretsWereShown, IsEnabled
  <2>4. QED  BY <1>4, <1>5, <2>2, <2>3 DEF Inv
<1>8. CASE ~IsEnabled
  <2>1. setting' = row /\ setting'.secret = made + 1 /\ ~setting'.enabled /\ setting' # NoRow
    BY <1>1, <1>3, <1>8
  <2>2. codes = {}
    BY <1>8 DEF Inv, CodesBelongToTheSetting
  <2>3. /\ \A k \in Steps : passed[<<made + 1, k>>] = 0
        /\ \A n \in CodeNumbers : recovered[<<made + 1, n>>] = 0
    BY <1>2, <1>6
  <2>4. PassesAreRemembered'
    <3>1. /\ \A s \in Secrets, k \in Steps : passed[<<s, k>>] # 0 => s <= made'
          /\ \A s \in Secrets, n \in CodeNumbers : recovered[<<s, n>>] # 0 => s <= made'
      BY <1>1, <1>2, <1>6, NumbersAreNumbers DEF Inv
    <3>2. setting'.secret <= made'
      BY <1>1, <1>2, <2>1
    <3>3. QED  BY <1>1, <2>1, <2>2, <2>3, <3>1, <3>2 DEF PassesAreRemembered
  <2>5. RecoveryCodesPassOnce' /\ CodesBelongToTheSetting' /\ EnabledSecretsWereShown'
    BY <1>1, <2>1, <2>2 DEF Inv, RecoveryCodesPassOnce, CodesBelongToTheSetting, EnabledSecretsWereShown, IsEnabled
  <2>6. QED  BY <1>4, <1>5, <2>4, <2>5 DEF Inv
<1>9. QED  BY <1>7, <1>8

\* One more pass of a code counts for that code alone.
LEMMA PassesAreCounted ==
    ASSUME TypeOK, NEW s \in Secrets, NEW k \in Steps, CountPass(s, k)
    PROVE  /\ passed' \in [Secrets \X Steps -> Nat]
           /\ passed'[<<s, k>>] = passed[<<s, k>>] + 1
           /\ \A t \in Secrets, l \in Steps : t # s \/ l # k => passed'[<<t, l>>] = passed[<<t, l>>]
           /\ \A t \in Secrets, l \in Steps : passed[<<t, l>>] \in Nat
<1>1. <<s, k>> \in Secrets \X Steps
  OBVIOUS
<1>2. \A t \in Secrets, l \in Steps : <<t, l>> \in Secrets \X Steps /\ (<<t, l>> = <<s, k>> => t = s /\ l = k)
  OBVIOUS
<1>3. QED  BY <1>1, <1>2 DEF TypeOK, CountPass

LEMMA EnableCommitKeepsInv ==
    ASSUME Inv, NEW r \in Requests, EnableCommit(r)
    PROVE  Inv'
<1> DEFINE secret == setting.secret
           step == req[r].step
           row == EnabledRow(setting, step)
<1>1. /\ req[r].pc = "codes" /\ CodesUnlocked
      /\ setting' = row /\ codes' = {secret} \X CodeNumbers /\ spent' = {}
      /\ CountPass(req[r].secret, step)
      /\ Return(r)
      /\ UNCHANGED <<alive, made, recovered>>
  BY DEF EnableCommit
<1>2. /\ settingLock = r /\ setting # NoRow /\ ~setting.enabled
      /\ req[r].secret = secret /\ secret \in Secrets /\ step \in Steps
      /\ setting \in PendingRows /\ secret <= made
  BY <1>1, RequestsHaveTheirFields, RowsHaveTheirFields
     DEF Inv, RequestsAreInOrder, InOrder, PassesAreRemembered
<1>3. row \in EnabledRows /\ row.secret = secret /\ row.enabled /\ row.lastStep = step /\ row # NoRow
  <2>1. row \in EnabledRows /\ row.secret = secret /\ row.enabled /\ row.lastStep = step
    BY <1>2 DEF EnabledRow, PendingRows, EnabledRows
  <2>2. QED  BY <2>1, NoRowIsNoSetting
<1>4. /\ passed' \in [Secrets \X Steps -> Nat]
      /\ passed'[<<secret, step>>] = passed[<<secret, step>>] + 1
      /\ \A t \in Secrets, l \in Steps : t # secret \/ l # step => passed'[<<t, l>>] = passed[<<t, l>>]
      /\ \A t \in Secrets, l \in Steps : passed[<<t, l>>] \in Nat
  BY <1>1, <1>2, PassesAreCounted DEF Inv
<1> HIDE DEF secret, step, row
<1>5. /\ \A k \in Steps : passed[<<secret, k>>] = 0
      /\ \A n \in CodeNumbers : recovered[<<secret, n>>] = 0
  BY <1>2 DEF Inv, PassesAreRemembered, secret
<1>6. TypeOK'
  <2>1. codes' \subseteq (1..made) \X CodeNumbers /\ spent' \subseteq codes'
    BY <1>1, <1>2, NumbersAreNumbers DEF Inv
  <2>2. QED  BY <1>1, <1>3, <1>4, <2>1, ReturnsKeepTypes DEF Inv, TypeOK
<1>7. RequestsAreInOrder'
  <2>1. \A q \in Requests, c \in codes \ spent : codeLock[c] # q
    BY <1>1, HoldersAreApart DEF CodesUnlocked
  <2>2. made \in Nat /\ made' = made
    BY <1>1, NumbersAreNumbers DEF Inv
  <2>3. QED  BY <1>1, <1>2, <2>1, <2>2, CommitsKeepOthersInOrder
<1>8. PassesAreRemembered'
  <2>1. \A s \in Secrets, k \in Steps : passed'[<<s, k>>] # 0 => s <= made
    BY <1>2, <1>4 DEF Inv, PassesAreRemembered
  <2>2. \A s \in Secrets, n \in CodeNumbers : recovered[<<s, n>>] # 0 => s <= made
    BY DEF Inv, PassesAreRemembered
  <2>3. \A k \in Steps : passed'[<<secret, k>>] # 0 => k <= step
    BY <1>2, <1>4, <1>5, NumbersAreNumbers DEF Inv
  <2>4. \A c \in codes' \ spent' : recovered[c] = 0
    BY <1>1, <1>5
  <2>5. QED  BY <1>1, <1>2, <1>3, <2>1, <2>2, <2>3, <2>4 DEF PassesAreRemembered
<1>9. EnabledSecretsWereShown'
  <2>1. passed'[<<secret, step>>] > 0
    BY <1>2, <1>4, <1>5
  <2>2. QED  BY <1>1, <1>2, <1>3, <2>1 DEF EnabledSecretsWereShown
<1>10. RecoveryCodesPassOnce' /\ CodesBelongToTheSetting'
  BY <1>1, <1>3 DEF Inv, RecoveryCodesPassOnce, CodesBelongToTheSetting, IsEnabled
<1>11. QED  BY <1>6, <1>7, <1>8, <1>9, <1>10 DEF Inv

LEMMA UseStepKeepsInv ==
    ASSUME Inv, NEW r \in Requests, UseStep(r)
    PROVE  Inv'
<1> DEFINE step == req[r].step
           secret == req[r].secret
           row == [setting EXCEPT !.lastStep = step]
<1>1. CASE ~IsNewStep(step)
  BY <1>1, RefuseKeepsInv DEF UseStep
<1>2. CASE IsNewStep(step)
  <2>1. /\ req[r].pc = "signin" /\ settingLock = Nobody
        /\ setting' = row /\ CountPass(secret, step) /\ Return(r)
        /\ UNCHANGED <<alive, made, codes, spent, recovered>>
    BY <1>2 DEF UseStep
  <2>2. /\ setting # NoRow /\ setting.enabled /\ setting.lastStep < step
        /\ setting \in EnabledRows /\ setting.secret \in Secrets /\ setting.lastStep \in Steps
        /\ setting.secret <= made
    BY <1>2, RowsHaveTheirFields DEF Inv, PassesAreRemembered, IsNewStep, IsEnabled
  <2>3. secret \in Secrets /\ step \in Steps /\ secret <= made
    BY <2>1, RequestsHaveTheirFields DEF Inv, RequestsAreInOrder, InOrder
  <2>4. row \in EnabledRows /\ row.secret = setting.secret /\ row.enabled /\ row.lastStep = step /\ row # NoRow
    <3>1. row \in EnabledRows /\ row.secret = setting.secret /\ row.enabled /\ row.lastStep = step
      BY <2>2, <2>3 DEF EnabledRows
    <3>2. QED  BY <3>1, NoRowIsNoSetting
  <2>5. /\ passed' \in [Secrets \X Steps -> Nat]
        /\ passed'[<<secret, step>>] = passed[<<secret, step>>] + 1
        /\ \A t \in Secrets, l \in Steps : t # secret \/ l # step => passed'[<<t, l>>] = passed[<<t, l>>]
        /\ \A t \in Secrets, l \in Steps : passed[<<t, l>>] \in Nat
    BY <2>1, <2>3, PassesAreCounted DEF Inv
  <2> HIDE DEF step, secret, row
  <2>6. TypeOK'
    BY <2>1, <2>4, <2>5, ReturnsKeepTypes DEF Inv, TypeOK
  <2>7. RequestsAreInOrder'
    <3>1. made \in Nat /\ made' = made /\ codes' = codes /\ spent' = spent
      BY <2>1, NumbersAreNumbers DEF Inv
    <3>2. QED  BY <2>1, <3>1, CommitsKeepOthersInOrder
  <2>8. \A k \in Steps : passed[<<setting.secret, k>>] # 0 => k <= setting.lastStep
    BY <2>2 DEF Inv, PassesAreRemembered
  <2>9. PassesAreRemembered'
    <3>1. \A s \in Secrets, k \in Steps : passed'[<<s, k>>] # 0 => s <= made
      BY <2>3, <2>5 DEF Inv, PassesAreRemembered
    <3>2. /\ \A s \in Secrets, n \in CodeNumbers : recovered[<<s, n>>] # 0 => s <= made
          /\ \A c \in codes \ spent : recovered[c] = 0
      BY DEF Inv, PassesAreRemembered
    <3>3. \A k \in Steps : passed'[<<setting.secret, k>>] # 0 => k <= step
      BY <2>2, <2>3, <2>5, <2>8, NumbersAreNumbers DEF Inv
    <3>4. QED  BY <2>1, <2>2, <2>4, <3>1, <3>2, <3>3 DEF PassesAreRemembered
  <2>10. EnabledSecretsWereShown'
    <3>1. PICK k \in Steps : passed[<<setting.secret, k>>] > 0
      BY <2>2 DEF Inv, EnabledSecretsWereShown, IsEnabled
    <3>2. passed'[<<setting.secret, k>>] > 0
      BY <2>2, <2>3, <2>5, <3>1
    <3>3. QED  BY <2>1, <2>4, <3>2 DEF EnabledSecretsWereShown
  <2>11. RecoveryCodesPassOnce' /\ CodesBelongToTheSetting'
    BY <2>1, <2>2, <2>4 DEF Inv, RecoveryCodesPassOnce, CodesBelongToTheSetting, IsEnabled
  <2>12. QED  BY <2>6, <2>7, <2>9, <2>10, <2>11 DEF Inv
<1>3. QED  BY <1>1, <1>2

LEMMA RecoveryCommitKeepsInv ==
    ASSUME Inv, NEW r \in Requests, RecoveryCommit(r)
    PROVE  Inv'
<1> DEFINE c == req[r].code
<1>1. /\ req[r].pc = "session" /\ spent' = spent \cup {c}
      /\ recovered' = [recovered EXCEPT ![c] = @ + 1]
      /\ Return(r)
      /\ UNCHANGED <<alive, setting, made, codes, passed>>
  BY DEF RecoveryCommit
<1>2. codeLock[c] = r /\ c \in codes \ spent /\ c \in RecoveryCodes
  BY <1>1, RequestsHaveTheirFields DEF Inv, RequestsAreInOrder, InOrder
<1>3. IsEnabled /\ codes = {setting.secret} \X CodeNumbers /\ recovered[c] = 0 /\ setting.secret <= made
  BY <1>2 DEF Inv, CodesBelongToTheSetting, PassesAreRemembered, IsEnabled
<1> HIDE DEF c
<1>4. /\ recovered' \in [RecoveryCodes -> Nat] /\ recovered'[c] = 1
      /\ \A d \in RecoveryCodes : d # c => recovered'[d] = recovered[d]
  BY <1>1, <1>2, <1>3 DEF Inv, TypeOK
<1>5. TypeOK'
  BY <1>1, <1>2, <1>4, ReturnsKeepTypes DEF Inv, TypeOK
<1>6. RequestsAreInOrder'
  <2>1. made \in Nat /\ made' = made /\ setting' = setting
    BY <1>1, NumbersAreNumbers DEF Inv
  <2>2. ASSUME NEW q \in Requests, NEW d \in codes \ spent, q # r, codeLock[d] = q
        PROVE  d \in codes' \ spent'
    BY <1>1, <1>2, <2>2
  <2>3. QED  BY <1>1, <2>1, <2>2, CommitsKeepOthersInOrder
<1>7. PassesAreRemembered'
  <2>1. \A s \in Secrets, n \in CodeNumbers : recovered'[<<s, n>>] # 0 => s <= made
    <3> SUFFICES ASSUME NEW s \in Secrets, NEW n \in CodeNumbers, recovered'[<<s, n>>] # 0
                 PROVE  s <= made
      OBVIOUS
    <3>1. CASE <<s, n>> = c
      <4>1. s = setting.secret
        BY <1>2, <1>3, <3>1
      <4>2. QED  BY <1>3, <4>1
    <3>2. CASE <<s, n>> # c
      <4>1. <<s, n>> \in RecoveryCodes
        BY DEF RecoveryCodes
      <4>2. QED  BY <1>4, <3>2, <4>1 DEF Inv, PassesAreRemembered
    <3>3. QED  BY <3>1, <3>2
  <2>2. \A d \in codes' \ spent' : recovered'[d] = 0
    <3>1. \A d \in codes' \ spent' : d \in codes \ spent /\ d # c /\ d \in RecoveryCodes
      BY <1>1, NumbersAreNumbers DEF Inv, TypeOK, RecoveryCodes, Secrets
    <3>2. QED  BY <1>4, <3>1 DEF Inv, PassesAreRemembered
  <2>3. QED  BY <1>1, <1>3, <2>1, <2>2 DEF Inv, PassesAreRemembered, IsEnabled
<1>8. RecoveryCodesPassOnce'
  BY <1>1, <1>4 DEF Inv, RecoveryCodesPassOnce
<1>9. CodesBelongToTheSetting' /\ EnabledSecretsWereShown'
  BY <1>1 DEF Inv, CodesBelongToTheSetting, EnabledSecretsWereShown, IsEnabled
<1>10. QED  BY <1>5, <1>6, <1>7, <1>8, <1>9 DEF Inv

LEMMA SweepKeepsInv ==
    ASSUME Inv, NEW r \in Requests, Sweep(r)
    PROVE  Inv'
<1> DEFINE step == req[r].step
           secret == setting.secret
<1>1. /\ req[r].pc = "sweep" /\ CodesUnlocked
      /\ setting' = IF req[r].holds THEN NoRow ELSE setting
      /\ codes' = {} /\ spent' = {}
      /\ alive' = (alive /\ ~req[r].leave)
      /\ IF step = 0 THEN passed' = passed ELSE CountPass(secret, step)
      /\ Return(r)
      /\ UNCHANGED <<made, recovered>>
  BY DEF Sweep
<1>2. /\ step \in Steps \cup {0} /\ req[r].holds \in BOOLEAN /\ req[r].leave \in BOOLEAN
      /\ req[r].holds => settingLock = r /\ setting # NoRow
      /\ step # 0 => req[r].holds /\ secret \in Secrets /\ secret <= made
  BY <1>1, RequestsHaveTheirFields, RowsHaveTheirFields
     DEF Inv, RequestsAreInOrder, InOrder, PassesAreRemembered
<1>3. step # 0 =>
          /\ passed' \in [Secrets \X Steps -> Nat]
          /\ \A t \in Secrets, l \in Steps : t # secret \/ l # step => passed'[<<t, l>>] = passed[<<t, l>>]
  BY <1>1, <1>2, PassesAreCounted DEF Inv
<1> HIDE DEF step, secret
<1>4. TypeOK'
  <2>1. passed' \in [Secrets \X Steps -> Nat]
    BY <1>1, <1>3 DEF Inv, TypeOK
  <2>2. setting' \in PendingRows \cup EnabledRows \cup {NoRow} /\ alive' \in BOOLEAN
    BY <1>1, <1>2 DEF Inv, TypeOK
  <2>3. QED  BY <1>1, <2>1, <2>2, ReturnsKeepTypes DEF Inv, TypeOK
<1>5. RequestsAreInOrder'
  <2>1. \A q \in Requests, c \in codes \ spent : codeLock[c] # q
    BY <1>1, HoldersAreApart DEF CodesUnlocked
  <2>2. made \in Nat /\ made' = made
    BY <1>1, NumbersAreNumbers DEF Inv
  <2>3. settingLock \notin {Nobody, r} => setting' = setting
    BY <1>1, <1>2
  <2>4. QED  BY <1>1, <2>1, <2>2, <2>3, CommitsKeepOthersInOrder
<1>6. PassesAreRemembered'
  <2>1. \A s \in Secrets, k \in Steps : passed'[<<s, k>>] # 0 => s <= made
    BY <1>1, <1>2, <1>3 DEF Inv, PassesAreRemembered
  <2>2. \A s \in Secrets, n \in CodeNumbers : recovered[<<s, n>>] # 0 => s <= made
    BY DEF Inv, PassesAreRemembered
  <2>3. setting' # NoRow => setting' = setting /\ passed' = passed
    BY <1>1, <1>2
  <2>4. QED  BY <1>1, <2>1, <2>2, <2>3 DEF Inv, PassesAreRemembered
<1>7. setting' # NoRow => setting' = setting /\ passed' = passed
  BY <1>1, <1>2
<1>8. EnabledSecretsWereShown'
  BY <1>7 DEF Inv, EnabledSecretsWereShown, IsEnabled
<1>9. RecoveryCodesPassOnce' /\ CodesBelongToTheSetting'
  BY <1>1 DEF Inv, RecoveryCodesPassOnce, CodesBelongToTheSetting
<1>10. QED  BY <1>4, <1>5, <1>6, <1>8, <1>9 DEF Inv

-----------------------------------------------------------------------------
(* The invariant, and what follows from it. *)

LEMMA InitHasInv ==
    ASSUME Init
    PROVE  Inv
<1> USE DEF Init
<1>1. TypeOK
  BY BoundsAreNumbers DEF TypeOK, RequestStates
<1>2. RequestsAreInOrder
  BY DEF RequestsAreInOrder, InOrder, Idle
<1>3. PassesAreRemembered
  BY DEF PassesAreRemembered, RecoveryCodes
<1>4. RecoveryCodesPassOnce /\ CodesBelongToTheSetting /\ EnabledSecretsWereShown
  BY DEF RecoveryCodesPassOnce, CodesBelongToTheSetting, EnabledSecretsWereShown, IsEnabled
<1>5. QED  BY <1>1, <1>2, <1>3, <1>4 DEF Inv

LEMMA NextKeepsInv ==
    ASSUME Inv, [Next]_vars
    PROVE  Inv'
<1>1. ASSUME NEW r \in Requests, Continue(r)
      PROVE  Inv'
  BY <1>1, UpsertPendingKeepsInv, EnableKeepsInv, EnableCommitKeepsInv, UseStepKeepsInv,
     UseRecoveryCodeKeepsInv, RecoveryCommitKeepsInv, DeleteMatchingKeepsInv,
     DeleteSettingKeepsInv, SweepKeepsInv
     DEF Continue
<1>2. ASSUME NEW r \in Requests, BeginRequest(r) \/ Abort(r)
      PROVE  Inv'
  BY <1>2, BeginRequestKeepsInv, RefuseKeepsInv DEF Abort
<1>3. CASE UNCHANGED vars
  <2> USE DEF vars, rows, locks, history
  <2>1. TypeOK' /\ RequestsAreInOrder' /\ PassesAreRemembered'
    BY <1>3 DEF Inv, TypeOK, RequestsAreInOrder, InOrder, PassesAreRemembered
  <2>2. RecoveryCodesPassOnce' /\ CodesBelongToTheSetting' /\ EnabledSecretsWereShown'
    BY <1>3 DEF Inv, RecoveryCodesPassOnce, CodesBelongToTheSetting, EnabledSecretsWereShown, IsEnabled
  <2>3. QED  BY <2>1, <2>2 DEF Inv
<1>4. QED  BY <1>1, <1>2, <1>3, TickKeepsInv DEF Next

\* The invariant is one of the specification.
THEOREM InvHolds == Spec => []Inv
<1>1. Init => Inv
  BY InitHasInv
<1>2. Inv /\ [Next]_vars => Inv'
  BY NextKeepsInv
<1>3. QED  BY <1>1, <1>2, PTL DEF Spec

\* The variables keep their types.
THEOREM TypesHold == Spec => []TypeOK
<1>1. Inv => TypeOK
  BY DEF Inv
<1>2. QED  BY <1>1, InvHolds, PTL

\* A code of the setting that is stored passes only if it has never passed
\* before (CodesOfTheSettingPassOnce, of the conditions on last_used_step, of
\* the row that is held while a setting is enabled or removed).
THEOREM CodesPassOnce == Spec => CodesOfTheSettingPassOnce
<1>1. ASSUME Inv, Next, setting # NoRow, NEW k \in Steps,
             passed'[<<setting.secret, k>>] # passed[<<setting.secret, k>>]
      PROVE  passed[<<setting.secret, k>>] = 0
  <2>1. setting.secret \in Secrets /\ (setting.enabled => setting.lastStep \in Nat) /\ Steps \subseteq Nat
    BY <1>1, RowsHaveTheirFields, NumbersAreNumbers DEF Inv
  <2>2. passed[<<setting.secret, k>>] # 0 => setting.enabled /\ k <= setting.lastStep
    BY <1>1 DEF Inv, PassesAreRemembered
  <2>3. ASSUME NEW secret \in Secrets, NEW step \in Steps, CountPass(secret, step)
        PROVE  secret = setting.secret /\ step = k
    BY <1>1, <2>1, <2>3, PassesAreCounted DEF Inv
  <2>4. ASSUME NEW r \in Requests, EnableCommit(r)
        PROVE  ~setting.enabled
    BY <1>1, <2>4 DEF Inv, RequestsAreInOrder, InOrder, EnableCommit
  <2>5. ASSUME NEW r \in Requests, UseStep(r)
        PROVE  setting.lastStep < k
    <3>1. req[r].pc = "signin" /\ IsNewStep(req[r].step) /\ CountPass(req[r].secret, req[r].step)
      BY <1>1, <2>5 DEF UseStep, Refuse, history
    <3>2. req[r].secret \in Secrets /\ req[r].step \in Steps
      BY <1>1, <3>1, RequestsHaveTheirFields DEF Inv
    <3>3. req[r].step = k
      BY <2>3, <3>1, <3>2
    <3>4. QED  BY <3>1, <3>3 DEF IsNewStep
  <2>6. ASSUME NEW r \in Requests, Sweep(r)
        PROVE  setting.lastStep < k
    <3>1. req[r].pc = "sweep" /\ req[r].step # 0 /\ CountPass(setting.secret, req[r].step)
      BY <1>1, <2>6 DEF Sweep
    <3>2. req[r].step \in Steps
      BY <1>1, <3>1, RequestsHaveTheirFields DEF Inv
    <3>3. req[r].step = k
      BY <2>1, <2>3, <3>1, <3>2
    <3>4. setting.lastStep < req[r].step
      BY <1>1, <3>1 DEF Inv, RequestsAreInOrder, InOrder
    <3>5. QED  BY <3>3, <3>4
  <2>7. \E r \in Requests : EnableCommit(r) \/ UseStep(r) \/ Sweep(r)
    <3>1. passed' # passed
      BY <1>1
    <3>2. ~Tick
      BY <3>1 DEF Tick, history
    <3>3. ASSUME NEW r \in Requests, BeginRequest(r) \/ Abort(r)
          PROVE  FALSE
      BY <3>1, <3>3 DEF BeginRequest, Begin, GoTo, Abort, Refuse, history, PrepareTwoFactorAuthBegin,
         EnableTwoFactorAuthBegin, CreateSignInTwoFactorBegin, CreateSignInTwoFactorRecoveryBegin,
         DisableTwoFactorAuthBegin, ForceDisableTwoFactorAuthBegin, DeleteAccountBegin
    <3>4. ASSUME NEW r \in Requests, Continue(r), ~EnableCommit(r), ~UseStep(r), ~Sweep(r)
          PROVE  FALSE
      BY <3>1, <3>4 DEF Continue, UpsertPending, Enable, UseRecoveryCode, RecoveryCommit, DeleteMatching,
         DeleteSetting, HoldSetting, GoTo, Refuse, history
    <3>5. QED  BY <1>1, <3>2, <3>3, <3>4 DEF Next
  <2>8. QED  BY <2>1, <2>2, <2>4, <2>5, <2>6, <2>7
<1>2. ASSUME Inv, [Next]_vars
      PROVE  setting # NoRow =>
                 \A k \in Steps :
                     passed'[<<setting.secret, k>>] # passed[<<setting.secret, k>>] =>
                         passed[<<setting.secret, k>>] = 0
  BY <1>1, <1>2 DEF vars, history
<1>3. QED  BY <1>2, InvHolds, PTL DEF Spec, CodesOfTheSettingPassOnce

\* A recovery code signs in once.
THEOREM RecoveryPassesOnce == Spec => []RecoveryCodesPassOnce
<1>1. Inv => RecoveryCodesPassOnce
  BY DEF Inv
<1>2. QED  BY <1>1, InvHolds, PTL

\* The recovery codes are those of the setting in force.
THEOREM NoCodesAreLeftBehind == Spec => []CodesBelongToTheSetting
<1>1. Inv => CodesBelongToTheSetting
  BY DEF Inv
<1>2. QED  BY <1>1, InvHolds, PTL

\* No secret comes into force unseen.
THEOREM SecretsAreShownFirst == Spec => []EnabledSecretsWereShown
<1>1. Inv => EnabledSecretsWereShown
  BY DEF Inv
<1>2. QED  BY <1>1, InvHolds, PTL

\* A setting in force stays what it is until it goes, and forgets no step.
THEOREM SettingsStay == Spec => EnabledSettingsStay
<1>1. ASSUME Inv, Next, IsEnabled, setting' # NoRow
      PROVE  /\ setting'.enabled /\ setting'.secret = setting.secret
             /\ setting'.lastStep >= setting.lastStep
  <2>1. /\ setting # NoRow /\ setting.enabled /\ setting \in EnabledRows
        /\ setting.lastStep \in Nat /\ setting.lastStep >= setting.lastStep
    BY <1>1, RowsHaveTheirFields, NumbersAreNumbers DEF Inv, IsEnabled
  <2>2. CASE setting' = setting
    BY <2>1, <2>2
  <2>3. ASSUME NEW r \in Requests, EnableCommit(r)
        PROVE  FALSE
    BY <1>1, <2>3 DEF Inv, RequestsAreInOrder, InOrder, EnableCommit, IsEnabled
  <2>4. ASSUME NEW r \in Requests, UseStep(r), setting' # setting
        PROVE  /\ setting'.enabled /\ setting'.secret = setting.secret
               /\ setting'.lastStep >= setting.lastStep
    <3>1. setting' = [setting EXCEPT !.lastStep = req[r].step] /\ setting.lastStep < req[r].step /\ req[r].pc = "signin"
      BY <2>4 DEF UseStep, Refuse, rows, IsNewStep
    <3>2. req[r].step \in Nat
      BY <1>1, <3>1, RequestsHaveTheirFields, NumbersAreNumbers DEF Inv
    <3>3. QED  BY <2>1, <3>1, <3>2 DEF EnabledRows
  <2>5. ASSUME NEW r \in Requests, Sweep(r) \/ UpsertPending(r)
        PROVE  setting' = setting
    BY <1>1, <2>5 DEF Sweep, UpsertPending
  <2>6. ASSUME NEW r \in Requests, BeginRequest(r) \/ Abort(r) \/ Enable(r) \/ UseRecoveryCode(r)
                                   \/ RecoveryCommit(r) \/ DeleteMatching(r) \/ DeleteSetting(r)
        PROVE  setting' = setting
    BY <2>6 DEF BeginRequest, Abort, Refuse, GoTo, HoldSetting, Begin, rows,
       PrepareTwoFactorAuthBegin, EnableTwoFactorAuthBegin, CreateSignInTwoFactorBegin,
       CreateSignInTwoFactorRecoveryBegin, DisableTwoFactorAuthBegin,
       ForceDisableTwoFactorAuthBegin, DeleteAccountBegin,
       Enable, UseRecoveryCode, RecoveryCommit, DeleteMatching, DeleteSetting
  <2>7. CASE Tick
    BY <2>2, <2>7 DEF Tick, rows
  <2>8. QED  BY <1>1, <2>2, <2>3, <2>4, <2>5, <2>6, <2>7 DEF Next, Continue
<1>2. Inv /\ [Next]_vars =>
          [IsEnabled /\ setting' # NoRow =>
               /\ setting'.enabled /\ setting'.secret = setting.secret
               /\ setting'.lastStep >= setting.lastStep]_vars
  BY <1>1
<1>3. QED  BY <1>2, InvHolds, PTL DEF Spec, EnabledSettingsStay

-----------------------------------------------------------------------------
(* Who waits for whom. *)

Withdraws(s) == s.pc = "leave" \/ (s.pc = "sweep" /\ s.leave)

\* The row of the setting or of a code that r has to take next is held by q;
\* a new row that refers to the user waits for the deletion of the user.
Awaits(r, q) ==
    \/ req[r].pc \in {"prepare", "enable", "signin", "disable"} /\ settingLock = q
    \/ req[r].pc \in {"clear", "leave"} /\ setting # NoRow /\ settingLock = q
    \/ req[r].pc \in {"codes", "sweep"} /\ \E c \in codes : codeLock[c] = q
    \/ req[r].pc = "recover" /\ req[r].code \in codes \ spent /\ codeLock[req[r].code] = q
    \/ req[r].pc \in {"codes", "session"} /\ Withdraws(req[q])
    \/ req[r].pc = "prepare" /\ setting = NoRow /\ Withdraws(req[q])

\* No operations on the setting wait for each other in a circle, unless the
\* deletion of the account is one of them.
CirclesHaveADeletion ==
    \A circle \in (SUBSET Requests) \ {{}} :
        (\A r \in circle : \E q \in circle : Awaits(r, q)) => \E r \in circle : Withdraws(req[r])

\* Rows are held by nobody else than those who took them and have not finished.
FitsItsLocks(r) ==
    /\ settingLock = r => req[r].pc \in {"codes", "sweep"}
    /\ \A c \in RecoveryCodes : codeLock[c] = r => req[r].pc = "session"

WaitInv == \A r \in Requests : FitsItsLocks(r)

\* Whoever holds the setting waits at most for codes and for the deletion,
\* and whoever holds a code only for the deletion.
LEMMA OnlyDeletionsCloseCircles == Inv /\ WaitInv => CirclesHaveADeletion
<1> SUFFICES ASSUME Inv, WaitInv, NEW circle \in SUBSET Requests, circle # {},
                    \A r \in circle : \E q \in circle : Awaits(r, q),
                    \A r \in circle : ~Withdraws(req[r])
             PROVE  FALSE
  BY DEF CirclesHaveADeletion
<1>1. \A r \in circle : req[r].pc # "session"
  BY DEF Awaits
<1>2. \A c \in RecoveryCodes : codeLock[c] \notin circle
  BY <1>1 DEF WaitInv, FitsItsLocks
<1>3. codes \subseteq RecoveryCodes
  BY NumbersAreNumbers DEF Inv, TypeOK, RecoveryCodes, Secrets
<1>4. \A r \in circle : req[r].pc \notin {"codes", "sweep", "recover"}
  BY <1>2, <1>3 DEF Awaits
<1>5. settingLock \notin circle
  BY <1>4 DEF WaitInv, FitsItsLocks
<1>6. PICK r \in circle : TRUE
  OBVIOUS
<1>7. QED  BY <1>1, <1>4, <1>5, <1>6 DEF Awaits

\* A step of r takes rows from nobody and moves nobody else.
LEMMA StepsKeepWaitInv ==
    ASSUME WaitInv, NEW r \in Requests,
           \A q \in Requests : q # r => req'[q] = req[q],
           \A q \in Requests : q # r /\ settingLock' = q => settingLock = q,
           \A q \in Requests, c \in RecoveryCodes : q # r /\ codeLock'[c] = q => codeLock[c] = q,
           FitsItsLocks(r)'
    PROVE  WaitInv'
BY DEF WaitInv, FitsItsLocks

LEMMA RequestsKeepWaitInv ==
    ASSUME Inv, WaitInv, NEW r \in Requests, BeginRequest(r) \/ Continue(r) \/ Abort(r)
    PROVE  WaitInv'
<1>1. FitsItsLocks(r)
  BY DEF WaitInv
<1>2. CASE Return(r)
  <2>1. \A q \in Requests : q # r => req'[q] = req[q]
    BY <1>2 DEF Return, Inv, TypeOK
  <2>2. settingLock' # r /\ \A c \in RecoveryCodes : codeLock'[c] # r
    BY <1>2, HoldersAreApart DEF Return, FreeLocks
  <2>3. /\ \A q \in Requests : settingLock' = q => settingLock = q
        /\ \A q \in Requests, c \in RecoveryCodes : codeLock'[c] = q => codeLock[c] = q
    BY <1>2, HoldersAreApart DEF Return, FreeLocks
  <2>4. FitsItsLocks(r)'
    BY <2>2 DEF FitsItsLocks
  <2>5. QED  BY <2>1, <2>3, <2>4, StepsKeepWaitInv
<1>3. ASSUME NEW state, GoTo(r, state), UNCHANGED locks, req[r].pc \notin {"codes", "sweep", "session"}
      PROVE  WaitInv'
  <2>1. settingLock' = settingLock /\ codeLock' = codeLock
    BY <1>3 DEF locks
  <2>2. settingLock # r /\ \A c \in RecoveryCodes : codeLock[c] # r
    BY <1>1, <1>3 DEF FitsItsLocks
  <2>3. \A q \in Requests : q # r => req'[q] = req[q]
    BY <1>3 DEF GoTo, Inv, TypeOK
  <2>4. QED  BY <2>1, <2>2, <2>3, StepsKeepWaitInv DEF FitsItsLocks
<1>4. CASE BeginRequest(r)
  <2>1. ASSUME NEW state, Begin(r, state)
        PROVE  WaitInv'
    BY <1>3, <2>1 DEF Begin, Idle
  <2>2. CASE PrepareTwoFactorAuthBegin(r) \/ ForceDisableTwoFactorAuthBegin(r) \/ DeleteAccountBegin(r)
    BY <2>1, <2>2 DEF PrepareTwoFactorAuthBegin, ForceDisableTwoFactorAuthBegin, DeleteAccountBegin
  <2>3. ASSUME NEW step, EnableTwoFactorAuthBegin(r, step) \/ CreateSignInTwoFactorBegin(r, step)
        PROVE  WaitInv'
    BY <2>1, <2>3 DEF EnableTwoFactorAuthBegin, CreateSignInTwoFactorBegin
  <2>4. ASSUME NEW code, CreateSignInTwoFactorRecoveryBegin(r, code)
        PROVE  WaitInv'
    BY <2>1, <2>4 DEF CreateSignInTwoFactorRecoveryBegin
  <2>5. ASSUME NEW step, DisableTwoFactorAuthBegin(r, step)
        PROVE  WaitInv'
    BY <2>1, <2>5 DEF DisableTwoFactorAuthBegin
  <2>6. QED  BY <1>4, <2>2, <2>3, <2>4, <2>5 DEF BeginRequest
<1>5. ASSUME NEW state, HoldSetting(r, state), state.pc \in {"codes", "sweep"},
             req[r].pc \notin {"codes", "sweep", "session"}
      PROVE  WaitInv'
  <2>1. /\ req'[r] = state /\ \A q \in Requests : q # r => req'[q] = req[q]
        /\ settingLock' = r /\ codeLock' = codeLock
    BY <1>5 DEF HoldSetting, GoTo, Inv, TypeOK
  <2>2. \A c \in RecoveryCodes : codeLock[c] # r
    BY <1>1, <1>5 DEF FitsItsLocks
  <2>3. QED  BY <1>5, <2>1, <2>2, StepsKeepWaitInv DEF FitsItsLocks
<1>6. CASE Enable(r)
  <2>1. CASE HoldSetting(r, [req[r] EXCEPT !.pc = "codes"])
    <3>1. req[r].pc = "enable"
      BY <1>6 DEF Enable
    <3>2. PICK state : state = [req[r] EXCEPT !.pc = "codes"]
      OBVIOUS
    <3>3. state.pc = "codes"
      BY <3>1, <3>2, RequestsHaveTheirFields DEF Inv
    <3>4. QED  BY <1>5, <2>1, <3>1, <3>2, <3>3
  <2>2. QED  BY <1>2, <1>6, <2>1 DEF Enable, Refuse
<1>7. CASE DeleteMatching(r)
  <2>1. CASE HoldSetting(r, [pc |-> "sweep", step |-> req[r].step, holds |-> TRUE, leave |-> FALSE])
    BY <1>5, <1>7, <2>1 DEF DeleteMatching
  <2>2. QED  BY <1>2, <1>7, <2>1 DEF DeleteMatching, Refuse
<1>8. CASE DeleteSetting(r)
  <2>1. PICK next : next = [pc |-> "sweep", step |-> 0, holds |-> setting # NoRow, leave |-> req[r].pc = "leave"]
    OBVIOUS
  <2>2. \/ GoTo(r, next) /\ UNCHANGED locks
        \/ HoldSetting(r, next)
    BY <1>8, <2>1 DEF DeleteSetting
  <2>3. req[r].pc \in {"clear", "leave"} /\ next.pc = "sweep"
    BY <1>8, <2>1 DEF DeleteSetting
  <2>4. QED  BY <1>3, <1>5, <2>2, <2>3
<1>9. CASE UseRecoveryCode(r)
  <2>1. CASE Refuse(r)
    BY <1>2, <2>1 DEF Refuse
  <2>2. CASE ~Refuse(r)
    <3>1. req[r].pc = "recover"
      BY <1>9 DEF UseRecoveryCode
    <3>2. PICK state : state = [req[r] EXCEPT !.pc = "session"]
      OBVIOUS
    <3>3. state.pc = "session" /\ req[r].code \in RecoveryCodes
      BY <3>1, <3>2, RequestsHaveTheirFields DEF Inv
    <3>4. /\ GoTo(r, state) /\ settingLock' = settingLock
          /\ codeLock' = [codeLock EXCEPT ![req[r].code] = r]
      BY <1>9, <2>2, <3>2 DEF UseRecoveryCode
    <3>5. /\ req'[r] = state /\ \A q \in Requests : q # r => req'[q] = req[q]
          /\ \A c \in RecoveryCodes : codeLock'[c] = r \/ codeLock'[c] = codeLock[c]
      BY <3>3, <3>4 DEF GoTo, Inv, TypeOK
    <3>6. settingLock # r
      BY <1>1, <3>1 DEF FitsItsLocks
    <3>7. QED  BY <3>3, <3>4, <3>5, <3>6, StepsKeepWaitInv DEF FitsItsLocks
  <2>3. QED  BY <2>1, <2>2
<1>10. CASE UpsertPending(r) \/ EnableCommit(r) \/ UseStep(r) \/ RecoveryCommit(r) \/ Sweep(r) \/ Abort(r)
  BY <1>2, <1>10 DEF UpsertPending, EnableCommit, UseStep, RecoveryCommit, Sweep, Abort, Refuse
<1>11. QED  BY <1>4, <1>6, <1>7, <1>8, <1>9, <1>10 DEF Continue

\* Signing in, enabling and disabling never wait for each other in a circle;
\* what PostgreSQL may have to end is a deletion of the account, which takes
\* its user first, against an operation that holds a row of the setting or a
\* code and then makes a row of the user.
THEOREM WaitsEnd == Spec => []CirclesHaveADeletion
<1>1. Init => WaitInv
  BY HoldersAreApart DEF Init, WaitInv, FitsItsLocks
<1>2. Inv /\ WaitInv /\ [Next]_vars => WaitInv'
  <2>1. UNCHANGED <<locks, req>> /\ WaitInv => WaitInv'
    BY DEF WaitInv, FitsItsLocks, locks
  <2>2. QED  BY <2>1, RequestsKeepWaitInv DEF Next, Tick, vars
<1>3. Inv /\ WaitInv => CirclesHaveADeletion
  BY OnlyDeletionsCloseCircles
<1>4. QED  BY <1>1, <1>2, <1>3, InvHolds, PTL DEF Spec

=============================================================================
