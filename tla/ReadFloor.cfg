SPECIFICATION ReadFloorSpec
CONSTANTS
    m0 = m0
    m1 = m1
    x = x
    None = None
    Keys <- MCKeys
    Manifests <- MCManifests
    Closure <- MCClosure
    Beneath <- MCBeneath
    Roots = {r}
    Namespaces = {ns}
    MaxGeneration = 2
    PubIds = {}
    PinIds = {}
    Plans = {}
    LeaseIds = {l1, l2}
    JobIds = {j}
    Windows = {1, 2}
    MaxVersion = 3
    MaxTick = 2
    MaxRangeEpoch = 1
    MaxPolicyEpoch = 2
    MaxEpoch = 8
    MaxPosition = 4
INVARIANTS
    FrontierOrder
    LeaseProtection
PROPERTIES
    NeverRetreats
    CollectionExact
SYMMETRY LeaseSymmetry
CHECK_DEADLOCK FALSE
