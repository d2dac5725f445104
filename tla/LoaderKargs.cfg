SPECIFICATION Spec
CONSTANTS
    Runs = {p, q}
    Entries = {1, 2}
    Base <- MCBase
    Foreign = {"root", "old", "mitigations=off"}
    Envs <- MCEnvs
INVARIANTS
    TypeOK
    BaseKept
    GuestHasOwn
