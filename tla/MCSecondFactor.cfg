SPECIFICATION Spec
CONSTANTS
    Requests = {r1, r2}
    NoRow = NoRow
    Nobody = Nobody
    CodeNumbers = {c1, c2}
    MaxSecrets = 2
    MaxTime = 2
SYMMETRY RequestsAndCodes
INVARIANTS RecoveryCodesPassOnce CodesBelongToTheSetting EnabledSecretsWereShown
PROPERTIES CodesOfTheSettingPassOnce
CHECK_DEADLOCK FALSE
