SPECIFICATION Spec
CONSTANTS
    Repos <- MCRepos
    NoRepo = NoRepo
    Symbols <- MCSymbols
    Deps <- MCDeps
    DepName <- MCDepName
    Requests <- MCRequests
    Snapshots <- MCSnapshots
    Srcinfos <- MCSrcinfos
    NoInfo = NoInfo
    Satisfied = {"c", "bash"}
    Official = {"glibc", "bash"}
    GitRepos = {"c"}
    Rank <- MCRank
    MaxDepsA = 3
    MaxDepsB = 2
    MaxDepsC = 2
INVARIANTS
    TypeOK
    DepsFirst
    CycleIsReal
    ProviderProvides
    BuildReady
PROPERTIES
    DecisionsStand
    ImplementsBuildOrder
    Termination
CHECK_DEADLOCK FALSE
