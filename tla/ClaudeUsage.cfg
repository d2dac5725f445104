SPECIFICATION Spec
CONSTANTS
    Bars = {b1, b2}
    Sessions = {s1, s2}
    Nothing = Nothing
    Empty = Empty
    Torn = Torn
    MaxRecords = 3
    MaxKills = 1
INVARIANTS
    LastSuccessful
PROPERTY Converges
