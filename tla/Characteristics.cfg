SPECIFICATION MCSpec
CONSTANTS
    \* InRubyGuard
    Guards = {main, temp, cb1, cb2}
    MaxUses = 8
    \* Callbacks
    ArgCount = 2
    Counts = {0, 1, 2, 3, 252, 253, 254, 255}
    MaxParams = 255
    Width = 256
    \* Notifications
    Empty = Empty
    Values = {Empty, a, b}
    NoValue = NoValue
    Caps = {"notify", "indicate"}
    MaxPending = 3
    \* NamedBits
    Fields <- MCFields
    Testers = {"initialized", "connected", "paired"}
    Listings <- MCListings
    None = None
    \* ByteArrays
    Base = 3
    IntWidth = 3
    Char0 = 4
    Char1 = 5
    Numbers <- MCNumbers
    Strings <- MCStrings
INVARIANTS
    CountCoversGuards
    LambdaTakenIffCallable
    ValueOnlyWhileTracking ListenerCurrent FreshAfterQuiet
    FirstListingKept
    LowBytesRight HexIsNumber
PROPERTIES
    NoRepeat FlagsWitnessed
