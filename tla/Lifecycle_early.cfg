SPECIFICATION LifeSpec
CONSTANTS
    Registration = {m1}
    MaxJoins = 1
INVARIANTS
    EveryClientIsGreeted
CHECK_DEADLOCK FALSE
