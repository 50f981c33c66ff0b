CONSTANTS
    v1 = v1
    v2 = v2
    v3 = v3
    Voters <- MCVoters
    MemberSets <- MCMemberSets
    TxSystems = {s1, s2}
    RecoveryIds = {r1}
    ReconfigIds = {c1, c2}
    Incarnations = {i1, i2}
    MaxGeneration = 3
    MaxIndex = 3
    None = None
SPECIFICATION FairGenerationSpec
INVARIANTS
    ActiveIsRecovered
PROPERTIES
    ActivationAdvances
    RecoveryCompletes
CHECK_DEADLOCK FALSE
