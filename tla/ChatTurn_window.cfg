SPECIFICATION Spec
CONSTANTS
    a = a
    b = b
    job = job
    cli = cli
    Caller = {a}
    Cli = cli
    Task = {job}
    TaskOfUser = job
    Plan <- MCPlan
    Kits <- KitLong
    Window = 6
CHECK_DEADLOCK FALSE
INVARIANTS
    HistoryIsWholeTurns
