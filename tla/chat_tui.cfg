\* One other user, a channel of two requests, three blank lines.
SPECIFICATION FairSpec
CONSTANTS
    Users = {u1, u2}
    GlobalChat = GlobalChat
    Capacity = 2
    Blanks = 3
    MaxLines = 6
    None = None
INVARIANTS
    ShownIsSent
    PanicsOnErrors
PROPERTIES
    LinesStay
    WaitEnds
CHECK_DEADLOCK FALSE
