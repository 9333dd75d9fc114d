SPECIFICATION FairSpec
CONSTANTS
    a = a
    b = b
    job = job
    cli = cli
    Caller = {a, b}
    Cli = cli
    Task = {job}
    TaskOfUser = job
    Plan <- MCPlan
    Kits <- MCKits
    Window = 2
CHECK_DEADLOCK FALSE
INVARIANTS
    StepsAreWhole
    OncePerTurn
    TaskRowSettled
    PersistedTurnsAreWhole
    RememberedIsDurable
PROPERTIES
    TurnEnds
