CONSTANTS
    Empty = Empty
    Values = {Empty, a, b}
    NoValue = NoValue
    Caps = {"notify", "indicate"}
    MaxPending = 1
SPECIFICATION NotificationsSpec
INVARIANT IndicatedValueIsRead
