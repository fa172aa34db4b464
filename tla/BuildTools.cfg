SPECIFICATION MCSpec
CHECK_DEADLOCK FALSE
CONSTANTS
    \* DevBuild
    Contents = {s1, s2, s3}
    Absent = Absent
    Partial = Partial
    \* CMakeFlatten
    Settings <- MCSettings
    Nesting <- MCNesting
    Inputs <- MCInputs
    MaxPasses = 4
    \* Releases
    Ids = {1, 2}
    Versions <- MCVersions
    Tags = {"v1", "v2"}
    Commits = {c1, c2}
    Requests <- MCRequests
    LibraryKeys <- MCLibraryKeys
    ClassKey <- MCClassKey
    None = None
    Default = Default
    Latest = Latest
    V061 = V061
    MaxChanges = 2
INVARIANTS
    HashMeansConfigured NeverBuildsPartial
    FinalIsFlattening AtMostTwoPasses
    OneRelease
PROPERTY
    OnlyIfNeeded
