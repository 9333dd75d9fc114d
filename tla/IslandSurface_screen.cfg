SPECIFICATION Spec
CONSTANTS
    Activity = {editor, build}
    Build = build
    Card = {tool, done}
    CardPriority <- Priorities
    Approval = {}
    Question = {}
    Elsewhere = {}
    Empty = empty
    SessionList = list
    Nothing = nil
    PeekTtl = 1
    AutoDismiss = 2
    MaxQueue = 1
    MaxCards = 2
    tool = tool
    done = done
INVARIANTS
    ScreenShowsSurface
