SPECIFICATION Spec
CONSTANTS
    Procs = {p, q}
    Images = {1, 2}
    NoImage = NoImage
    NoId = NoId
    NoStamp = NoStamp
    NoDisk = NoDisk
    Blank = Blank
    Partial = Partial
    Mixed = Mixed
    Kinds = {"artifact", "boot", "unchecked", "sandbox", "bare"}
    MaxFailures = 1
INVARIANTS
    TypeOK
    ReadyIsInstalled
    SandboxIsStamped
PROPERTIES
    OnlyWhenChanged
    Refreshes
