SPECIFICATION CommitSpec
CONSTANTS
    None = None
    Voters = {v1}
    TxSystems = {s1}
    RecoveryIds = {r1}
    ReconfigIds = {}
    Incarnations = {}
    MemberSets = {{v1}}
    MaxIndex = 2
    n1 = n1
    n2 = n2
    n3 = n3
    m1 = m1
    d10 = d10
    d20 = d20
    Keys = {x}
    LogSets = {d10}
    TLogs = {n1, n2, n3}
    PolicyMembers <- MCMembers
    PolicyQuorum <- MCQuorum
    ReadSet <- MCReadSet
    WriteSet <- MCWriteSet
    Txns = {t1, t2}
    DirectTxns = {}
    RateLimited = {}
    TransitionIds = {}
    Resolutions <- NoResolutions
    MaxPrefix = 4
    MaxGeneration = 2
    MaxSequence = 2
    MaxEpoch = 0
    MaxLog = 2
SYMMETRY Interchangeable
INVARIANTS
    VisibleIsDurable
    AbortedNeverDurable
    CertifiedPrefixSurvives
    ReplayIsCommittedPrefix
CHECK_DEADLOCK FALSE
