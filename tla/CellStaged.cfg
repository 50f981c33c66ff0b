SPECIFICATION StagedPathSpec
CONSTANTS
    None = None
    Voters = {v1}
    TxSystems = {s1}
    RecoveryIds = {r1}
    ReconfigIds = {}
    Incarnations = {}
    MemberSets = {{v1}}
    MaxIndex = 2
    t1 = t1
    t2 = t2
    t3 = t3
    t4 = t4
    n1 = n1
    n2 = n2
    n3 = n3
    d10 = d10
    d20 = d20
    Keys = {x, y}
    x = x
    y = y
    LogSets = {d10, d20}
    PolicyMembers <- MCMembers
    PolicyQuorum <- MCQuorum
    ReadSet <- MCReadSet
    WriteSet <- MCWriteSet
    TLogs = {n1, n2, n3}
    MaxPrefix = 4
    Txns = {t1, t2, t3}
    DirectTxns = {}
    RateLimited = {}
    TransitionIds = {}
    Resolutions <- NoResolutions
    MaxGeneration = 2
    MaxSequence = 3
    MaxEpoch = 0
INVARIANTS
    ChainUnbroken
    ResolvedInStagedOrder
PROPERTIES
    DecisionsAreFinal
    ImplementsSerialHistory
CHECK_DEADLOCK FALSE
