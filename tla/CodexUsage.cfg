SPECIFICATION CodexSpec
CONSTANTS
    MaxPipe = 2
INVARIANTS
    CodexTypeOK
    ReplyIsOwn
    NoServerLeft
PROPERTIES
    Refreshes
CHECK_DEADLOCK FALSE
