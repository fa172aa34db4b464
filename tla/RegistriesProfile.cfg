SPECIFICATION Spec
CONSTANTS
    Resources <- TreeResources
    Host = "host"
    Parent <- TreeParent
    Level <- TreeLevel
    Key <- ProfileKey
    Hash <- KeyHash
INVARIANT OwnRegistry
