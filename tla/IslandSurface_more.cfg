SPECIFICATION FairSpec
CONSTANTS
    Activity = {editor, build}
    Build = build
    Card = {tool, done}
    CardPriority <- Priorities
    Approval = {x1}
    Question = {q1}
    Elsewhere = {e1}
    Empty = empty
    SessionList = list
    Nothing = nil
    PeekTtl = 1
    AutoDismiss = 2
    MaxQueue = 2
    MaxCards = 4
    tool = tool
    done = done
INVARIANTS
    TypeOK
    ScreenFollows
PROPERTIES
    PinnedStays
    CardLeaves
