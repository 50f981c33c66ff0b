SPECIFICATION ObjectSpec
CONSTANTS
    m0 = m0
    m1 = m1
    m2 = m2
    x = x
    p0 = p0
    p1 = p1
    p2 = p2
    root = root
    None = None
    Keys <- MCKeys
    Manifests <- MCManifests
    Closure <- MCClosure
    Beneath <- MCBeneath
    Roots = {root}
    Namespaces = {}
    PubIds = {p0, p1, p2}
    PinIds = {pin}
    Plans = {plan}
    LeaseIds = {l}
    JobIds = {}
    Windows = {1}
    MaxVersion = 1
    MaxTick = 1
    MaxRangeEpoch = 1
    MaxPolicyEpoch = 1
    MaxEpoch = 7
    MaxPosition = 2
    MaxGeneration = 2
    Job <- MCJob
    JobGeneration = 1
    MaxCrashes = 1
INVARIANTS RootsReadable PublishedKnown ReservedUnnamed
CHECK_DEADLOCK FALSE
