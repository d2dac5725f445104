SPECIFICATION Spec
CONSTANTS
    Heads = {1, 2, 3}
    NoHead = NoHead
    Torn = Torn
    Names = {a, b}
    Versions = {v1, v2}
    NamesAt <- MCNamesAt
    VersionsAt <- MCVersionsAt
    a = a
    b = b
    v1 = v1
    v2 = v2
    MaxFailures = 2
INVARIANTS
    TypeOK
    CompleteAtHead
PROPERTIES
    NoRebuild
    Recovers
