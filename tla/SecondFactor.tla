----------------------------- MODULE SecondFactor -----------------------------
(***************************************************************************)
(* The second factor of one user: the setting that an authenticator shares *)
(* a secret with, the step of time whose code was used last, and the       *)
(* recovery codes.                                                         *)
(*                                                                         *)
(* A request reads the setting, compares a code with its secret and only   *)
(* then writes, under a condition on the row it finds at that time; in     *)
(* between another tab, a sign-in elsewhere, the command line or the       *)
(* deletion of the account may have replaced the setting.                  *)
(*                                                                         *)
(* Rows of different users never meet.  A secret is its number in the      *)
(* order of making, and tells the row it is in: the id of a row adds       *)
(* nothing to it.  Of a code only the secret and the step it belongs to    *)
(* are kept; a code that does not fit, a wrong password and a full rate    *)
(* limit change nothing.                                                   *)
(***************************************************************************)
EXTENDS Naturals, FiniteSets

CONSTANTS
    Requests,
    NoRow,          \* "no such row"
    Nobody,         \* "nobody holds the lock"
    CodeNumbers,    \* the recovery codes of one enabling
    MaxSecrets,     \* bound: secrets made
    MaxTime         \* bound: the last step of time

ASSUME BoundsAreNumbers == MaxSecrets \in Nat \ {0} /\ MaxTime \in Nat \ {0}
ASSUME NobodyIsNobody == Nobody \notin Requests
ASSUME SomeCodes == CodeNumbers # {}

VARIABLES
    now,        \* the current step of time, of 30 seconds
    alive,      \* users: deleted_at IS NULL
    setting,    \* user_two_factor_auths: the row of the user
    made,       \* the number of secrets made so far
    codes,      \* user_two_factor_recovery_codes: the rows
    spent,      \* those of them whose used_at is set
    settingLock, codeLock,  \* who holds the setting, and each recovery code
    req,        \* where each request stands
    passed,     \* history: how often the code of each secret and step has passed
    recovered   \* history: how often each recovery code has passed

rows == <<alive, setting, made, codes, spent>>
locks == <<settingLock, codeLock>>
history == <<passed, recovered>>
vars == <<now, rows, locks, req, history>>

Secrets == 1..MaxSecrets
Steps == 1..MaxTime + 1
RecoveryCodes == Secrets \X CodeNumbers

PendingRows == [secret: Secrets, enabled: {FALSE}, lastStep: {0}]
EnabledRows == [secret: Secrets, enabled: {TRUE}, lastStep: Steps]
ASSUME NoRowIsNoSetting == NoRow \notin PendingRows \cup EnabledRows

Idle == [pc |-> "idle"]
RequestStates ==
    {Idle}
    \cup [pc: {"prepare", "clear"}]
    \cup [pc: {"enable", "codes", "signin"}, secret: Secrets, step: Steps]
    \cup [pc: {"disable"}, secret: Secrets, step: Steps \cup {0}]
    \cup [pc: {"recover", "session"}, code: RecoveryCodes]
    \cup [pc: {"sweep"}, step: Steps \cup {0}, holds: BOOLEAN, leave: BOOLEAN]
    \cup [pc: {"leave"}]

TypeOK ==
    /\ now \in 1..MaxTime
    /\ alive \in BOOLEAN
    /\ setting \in PendingRows \cup EnabledRows \cup {NoRow}
    /\ made \in 0..MaxSecrets
    /\ spent \subseteq codes /\ codes \subseteq (1..made) \X CodeNumbers
    /\ settingLock \in Requests \cup {Nobody}
    /\ codeLock \in [RecoveryCodes -> Requests \cup {Nobody}]
    /\ req \in [Requests -> RequestStates]
    /\ passed \in [Secrets \X Steps -> Nat]
    /\ recovered \in [RecoveryCodes -> Nat]

Init ==
    /\ now = 1
    /\ alive = TRUE
    /\ setting = NoRow
    /\ made = 0
    /\ codes = {} /\ spent = {}
    /\ settingLock = Nobody
    /\ codeLock = [c \in RecoveryCodes |-> Nobody]
    /\ req = [r \in Requests |-> Idle]
    /\ passed = [p \in Secrets \X Steps |-> 0]
    /\ recovered = [c \in RecoveryCodes |-> 0]

-----------------------------------------------------------------------------
(* Codes, locks and the ends of requests. *)

Tick ==
    /\ now < MaxTime
    /\ now' = now + 1
    /\ UNCHANGED <<rows, locks, req, history>>

\* The steps whose codes are accepted: a clock may be one step off.
AcceptedSteps == {k \in Steps : now - 1 <= k /\ k <= now + 1}

IsEnabled == setting # NoRow /\ setting.enabled

CountPass(secret, step) == passed' = [passed EXCEPT ![<<secret, step>>] = @ + 1]

FreeLocks(r) ==
    /\ settingLock' = IF settingLock = r THEN Nobody ELSE settingLock
    /\ codeLock' = [c \in RecoveryCodes |-> IF codeLock[c] = r THEN Nobody ELSE codeLock[c]]

Return(r) == FreeLocks(r) /\ req' = [req EXCEPT ![r] = Idle] /\ UNCHANGED now

Refuse(r) == Return(r) /\ UNCHANGED <<rows, history>>

\* A failed statement, a lost client, the end of the process, or a transaction
\* that PostgreSQL ends because of a deadlock.
Abort(r) == req[r] # Idle /\ Refuse(r)

GoTo(r, state) ==
    /\ req' = [req EXCEPT ![r] = state]
    /\ UNCHANGED <<now, rows, history>>

Begin(r, state) == req[r] = Idle /\ GoTo(r, state) /\ UNCHANGED locks

HoldSetting(r, state) ==
    /\ settingLock' = r
    /\ GoTo(r, state)
    /\ UNCHANGED codeLock

\* WithdrawUser changes unique columns, so until it commits the foreign key of
\* an insert waits for the row of the user.
BeingWithdrawn ==
    \E q \in Requests : req[q].pc = "leave" \/ (req[q].pc = "sweep" /\ req[q].leave)

\* DELETE of all recovery codes waits for those that are being used.
CodesUnlocked == \A c \in codes : codeLock[c] = Nobody

-----------------------------------------------------------------------------
(* Setting it up. *)

PrepareTwoFactorAuthBegin(r) == alive /\ Begin(r, [pc |-> "prepare"])

\* One INSERT ... ON CONFLICT: makes the row or replaces a secret that is not in use.
UpsertPending(r) ==
    /\ req[r].pc = "prepare"
    /\ made < MaxSecrets
    /\ settingLock = Nobody
    /\ setting = NoRow => ~BeingWithdrawn
    /\ made' = made + 1
    /\ setting' = IF IsEnabled THEN setting
                  ELSE [secret |-> made + 1, enabled |-> FALSE, lastStep |-> 0]
    /\ Return(r)
    /\ UNCHANGED <<alive, codes, spent, history>>

EnableTwoFactorAuthBegin(r, step) ==
    /\ setting # NoRow /\ ~setting.enabled
    /\ Begin(r, [pc |-> "enable", secret |-> setting.secret, step |-> step])

\* Wrong on purpose: enables whatever is pending.
EnablePending(r) ==
    /\ req[r].pc = "enable"
    /\ settingLock = Nobody
    /\ IF setting # NoRow /\ ~IsEnabled
       THEN HoldSetting(r, [req[r] EXCEPT !.pc = "codes"])
       ELSE Refuse(r)

\* The conditional UPDATE: only the secret that the code was compared with.
Enable(r) ==
    /\ req[r].pc = "enable"
    /\ settingLock = Nobody
    /\ IF setting # NoRow /\ ~IsEnabled /\ setting.secret = req[r].secret
       THEN HoldSetting(r, [req[r] EXCEPT !.pc = "codes"])
       ELSE Refuse(r)

EnabledRow(row, step) == [row EXCEPT !.enabled = TRUE, !.lastStep = step]

\* The old recovery codes go, the new ones come.
EnableCommit(r) ==
    /\ req[r].pc = "codes"
    /\ CodesUnlocked /\ ~BeingWithdrawn
    /\ setting' = EnabledRow(setting, req[r].step)
    /\ codes' = {setting.secret} \X CodeNumbers
    /\ spent' = {}
    /\ CountPass(req[r].secret, req[r].step)
    /\ Return(r)
    /\ UNCHANGED <<alive, made, recovered>>

-----------------------------------------------------------------------------
(* Signing in with it, after the password. *)

CreateSignInTwoFactorBegin(r, step) ==
    /\ alive /\ IsEnabled
    /\ Begin(r, [pc |-> "signin", secret |-> setting.secret, step |-> step])

\* Wrong on purpose: the last step is not looked at.
IsNewStepUnchecked(step) == IsEnabled

\* WHERE enabled_at IS NOT NULL AND last_used_step < @step.
IsNewStep(step) == IsEnabled /\ setting.lastStep < step

\* A single UPDATE; of whatever setting the user has by now.  (A code that was
\* compared with a setting that has been replaced meanwhile can pass once more.)
UseStep(r) ==
    /\ req[r].pc = "signin"
    /\ settingLock = Nobody
    /\ IF IsNewStep(req[r].step)
       THEN /\ setting' = [setting EXCEPT !.lastStep = req[r].step]
            /\ CountPass(req[r].secret, req[r].step)
            /\ Return(r)
            /\ UNCHANGED <<alive, made, codes, spent, recovered>>
       ELSE Refuse(r)

CreateSignInTwoFactorRecoveryBegin(r, code) ==
    /\ alive /\ IsEnabled
    /\ Begin(r, [pc |-> "recover", code |-> code])

\* Wrong on purpose: a code that somebody is using is taken for unused.
UseRecoveryCodeAtOnce(r) ==
    /\ req[r].pc = "recover"
    /\ LET c == req[r].code
       IN  IF c \in codes \ spent
           THEN /\ codeLock' = [codeLock EXCEPT ![c] = r]
                /\ GoTo(r, [req[r] EXCEPT !.pc = "session"])
                /\ UNCHANGED settingLock
           ELSE Refuse(r)

\* UPDATE ... WHERE used_at IS NULL: waits for another that uses the code.
UseRecoveryCode(r) ==
    /\ req[r].pc = "recover"
    /\ LET c == req[r].code
       IN  IF c \in codes \ spent
           THEN /\ codeLock[c] = Nobody
                /\ codeLock' = [codeLock EXCEPT ![c] = r]
                /\ GoTo(r, [req[r] EXCEPT !.pc = "session"])
                /\ UNCHANGED settingLock
           ELSE Refuse(r)

\* The session is made in the same transaction.
RecoveryCommit(r) ==
    /\ req[r].pc = "session"
    /\ ~BeingWithdrawn
    /\ spent' = spent \cup {req[r].code}
    /\ recovered' = [recovered EXCEPT ![req[r].code] = @ + 1]
    /\ Return(r)
    /\ UNCHANGED <<alive, setting, made, codes, passed>>

-----------------------------------------------------------------------------
(* Taking it away. *)

\* The user gives the password (step 0) or a code.
DisableTwoFactorAuthBegin(r, step) ==
    /\ IsEnabled
    /\ Begin(r, [pc |-> "disable", secret |-> setting.secret, step |-> step])

\* Wrong on purpose: the code is compared, but its step is not used up.
DeleteMatchingAnyStep(r) ==
    /\ req[r].pc = "disable"
    /\ settingLock = Nobody
    /\ IF IsEnabled /\ setting.secret = req[r].secret
       THEN HoldSetting(r, [pc |-> "sweep", step |-> req[r].step, holds |-> TRUE, leave |-> FALSE])
       ELSE Refuse(r)

\* UseMatchingStep, if a code was given, and DeleteMatching: the row is held
\* from the first of them on.
DeleteMatching(r) ==
    /\ req[r].pc = "disable"
    /\ settingLock = Nobody
    /\ IF /\ IsEnabled /\ setting.secret = req[r].secret
          /\ req[r].step # 0 => IsNewStep(req[r].step)
       THEN HoldSetting(r, [pc |-> "sweep", step |-> req[r].step, holds |-> TRUE, leave |-> FALSE])
       ELSE Refuse(r)

\* Without asking for anything, from the command line.
ForceDisableTwoFactorAuthBegin(r) == alive /\ Begin(r, [pc |-> "clear"])

DeleteAccountBegin(r) == alive /\ ~BeingWithdrawn /\ Begin(r, [pc |-> "leave"])

\* DELETE ... WHERE user_id: when there is no row, nothing is held.
DeleteSetting(r) ==
    /\ req[r].pc \in {"clear", "leave"}
    /\ LET next == [pc |-> "sweep", step |-> 0, holds |-> setting # NoRow, leave |-> req[r].pc = "leave"]
       IN  IF setting = NoRow
           THEN GoTo(r, next) /\ UNCHANGED locks
           ELSE settingLock = Nobody /\ HoldSetting(r, next)

\* Wrong on purpose: the recovery codes are left to the next enabling.
SweepSettingOnly(r) ==
    /\ req[r].pc = "sweep"
    /\ setting' = IF req[r].holds THEN NoRow ELSE setting
    /\ alive' = (alive /\ ~req[r].leave)
    /\ UNCHANGED passed
    /\ Return(r)
    /\ UNCHANGED <<codes, spent, made, recovered>>

\* DELETE of the recovery codes, and COMMIT.
Sweep(r) ==
    /\ req[r].pc = "sweep"
    /\ CodesUnlocked
    /\ setting' = IF req[r].holds THEN NoRow ELSE setting
    /\ codes' = {} /\ spent' = {}
    /\ alive' = (alive /\ ~req[r].leave)
    /\ IF req[r].step = 0 THEN UNCHANGED passed ELSE CountPass(setting.secret, req[r].step)
    /\ Return(r)
    /\ UNCHANGED <<made, recovered>>

-----------------------------------------------------------------------------
BeginRequest(r) ==
    \/ PrepareTwoFactorAuthBegin(r)
    \/ \E step \in AcceptedSteps :
          \/ EnableTwoFactorAuthBegin(r, step)
          \/ CreateSignInTwoFactorBegin(r, step)
    \/ \E code \in (1..made) \X CodeNumbers : CreateSignInTwoFactorRecoveryBegin(r, code)
    \/ \E step \in AcceptedSteps \cup {0} : DisableTwoFactorAuthBegin(r, step)
    \/ ForceDisableTwoFactorAuthBegin(r)
    \/ DeleteAccountBegin(r)

\* The step the server owes a request it has begun.
Continue(r) ==
    \/ UpsertPending(r)
    \/ Enable(r) \/ EnableCommit(r)
    \/ UseStep(r)
    \/ UseRecoveryCode(r) \/ RecoveryCommit(r)
    \/ DeleteMatching(r) \/ DeleteSetting(r) \/ Sweep(r)

Next ==
    \/ \E r \in Requests : BeginRequest(r) \/ Continue(r) \/ Abort(r)
    \/ Tick

Spec == Init /\ [][Next]_vars

-----------------------------------------------------------------------------
(* What must hold. *)

\* A code of the setting that is stored passes only if it has never passed
\* before, whether it enables the setting, signs somebody in or takes the
\* setting away in this very step.
CodesOfTheSettingPassOnce ==
    [][setting # NoRow =>
           \A k \in Steps :
               passed'[<<setting.secret, k>>] # passed[<<setting.secret, k>>] =>
                   passed[<<setting.secret, k>>] = 0]_vars

\* A recovery code lets nobody in twice, whoever sends it from where.
RecoveryCodesPassOnce == \A c \in RecoveryCodes : recovered[c] <= 1

\* Recovery codes are left of no setting but the one that is in force.
CodesBelongToTheSetting ==
    codes # {} => IsEnabled /\ codes = {setting.secret} \X CodeNumbers

\* A setting is in force only with a secret of which somebody has shown a
\* code, not with one that another tab has put in its place.
EnabledSecretsWereShown ==
    IsEnabled => \E k \in Steps : passed[<<setting.secret, k>>] > 0

\* A setting in force keeps its secret and never accepts an older step, until
\* it is removed as a whole.
EnabledSettingsStay ==
    [][IsEnabled /\ setting' # NoRow =>
           /\ setting'.enabled /\ setting'.secret = setting.secret
           /\ setting'.lastStep >= setting.lastStep]_vars

=============================================================================
