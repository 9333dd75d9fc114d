SPECIFICATION FairSpec
CONSTANTS
    Approval = {a1}
    Level = {0, 7}
    Builder = {b1, b2}
    None = none
    MaxChanges = 3
    MaxPushes = 1
    MaxDrops = 1
INVARIANTS
    ClientFollowsStores
PROPERTIES
    PendingIsShown
\* Changes are bounded, and then nothing is left to do.
CHECK_DEADLOCK FALSE
