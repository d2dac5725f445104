SPECIFICATION CodexSpec
CONSTANTS
    MaxPipe = 2
PROPERTIES
    EndsInTime
CHECK_DEADLOCK FALSE
