CONSTANTS
    RubyThreads = {loader, other}
    Loader = loader
    Queue = queue
    Backends = {b1, b2}
    NoThread = NoThread
    Events = {e1, e2, e3}
    NoEvent = NoEvent
    ShutdownCallers = {loader, other, queue}
    DEBUG = FALSE
    TimeoutsFire = TRUE
    CallbacksRaise = TRUE
    CleanupThrows = TRUE
SPECIFICATION Spec
INVARIANTS
    TypeOK
    SemAccounting
    NeverPopsEmpty
    QuiescentAfterStop
    SelfShutdownNeverSucceeds
PROPERTY
    ImplementsDispatch
