SPECIFICATION Spec
CONSTANTS
    Modes = {"script", "fixture", "keep"}
    Tries = 3
    MaxSignals = 3
INVARIANTS
    TypeOK
    ExitStopsVm
    EspSafe
PROPERTIES
    SignalEnds
CHECK_DEADLOCK FALSE
