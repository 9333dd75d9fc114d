SPECIFICATION FairSpec
CONSTANTS
    Conn = {a, b}
    None = none
    MaxTraffic = 1
INVARIANTS
    NewestKeepsWriter
    LiveConnectionIsServed
    ReadyFollowsSnapshot
CHECK_DEADLOCK FALSE
