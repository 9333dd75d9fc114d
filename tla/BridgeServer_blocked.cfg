SPECIFICATION Spec
CONSTANTS
    Conn = {a, b}
    None = none
    MaxTraffic = 0
INVARIANTS
    ReconnectIsNotBlocked
CHECK_DEADLOCK FALSE
