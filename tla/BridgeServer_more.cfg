SPECIFICATION FairSpec
CONSTANTS
    Conn = {a, b}
    None = none
    MaxTraffic = 1
INVARIANTS
    TypeOK
    WriterHasHandler
PROPERTIES
    StaleHandlerLeaves
    LoopsEnd
CHECK_DEADLOCK FALSE
