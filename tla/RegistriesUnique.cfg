SPECIFICATION AccessSpec
CONSTANTS
    Resources <- TreeResources
    Host = "host"
    Parent <- TreeParent
    Level <- TreeLevel
    Key <- DistinctKey
    Hash <- KeyHash
    Descs = {d1}
INVARIANT TypeOK
INVARIANT OwnRegistry
INVARIANT Routed
INVARIANT AnswerIsRight
INVARIANT OneProxyEach
INVARIANT ShutdownReachesAll
INVARIANT CachedCharacteristicWorks
INVARIANT ReachesOwn
INVARIANT DescriptorsReachOwn
INVARIANT KeptWithOwner
