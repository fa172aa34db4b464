CONSTANTS
    a1 = a1
    a2 = a2
    p1 = p1
    p2 = p2
    Adapters = {a1, a2}
    Peripherals = {p1, p2}
    AdapterOf <- MCAdapterOf
    None = None
SPECIFICATION Spec
CHECK_DEADLOCK FALSE
INVARIANTS CleanBeforeStop SkippedOnlyAfterFailure
PROPERTY DeInitEnds
