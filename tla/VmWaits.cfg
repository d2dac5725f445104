SPECIFICATION Spec
CONSTANTS
    Timeout = 4
    BootTimeout = 3
    KeyscanTime = 1
    LoginTime = 2
    CommandTime = 2
    SerialTime = 2
    Pause = 1
    Steps = 2
    Tries = 2
INVARIANTS
    TypeOK
    WaitsAreBounded
    DeathIsNoticed
PROPERTIES
    Ends
CHECK_DEADLOCK FALSE
