CONSTANTS
    RubyThreads = {loader, other}
    Loader = loader
    Queue = queue
    Backends = {b1}
    NoThread = NoThread
    Events = {e1}
    NoEvent = NoEvent
    ShutdownCallers = {loader, other, queue}
    DEBUG = FALSE
    TimeoutsFire = TRUE
    CallbacksRaise = TRUE
    CleanupThrows = TRUE
SPECIFICATION StubbornSpec
PROPERTY
    ShutdownReturnsOrAborts
