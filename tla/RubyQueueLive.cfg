CONSTANTS
    RubyThreads = {loader, other}
    Loader = loader
    Queue = queue
    Backends = {b1}
    NoThread = NoThread
    Events = {e1, e2}
    NoEvent = NoEvent
    ShutdownCallers = {loader, other}
    DEBUG = TRUE
    TimeoutsFire = FALSE
    CallbacksRaise = FALSE
    CleanupThrows = TRUE
SPECIFICATION FairSpec
PROPERTIES
    StartupCompletes
    CallbacksAreTaken
    StopEndsLoop
    ShutdownReturns
