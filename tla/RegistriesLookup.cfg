SPECIFICATION Spec
CONSTANTS
    Resources <- TreeResources
    Host = "host"
    Parent <- TreeParent
    Level <- TreeLevel
    Key <- DistinctKey
    Hash <- KeyHash
INVARIANT CachedServiceWorks
