CONSTANTS
    demoApproval = demo
    sug = sug
    chat = chat
    Approval = {demo}
    Demo = demo
    Chat = {chat}
    RankOf <- Ranks
    MaxActive = 3
    MaxAsks <- Once
    MaxChats = 0
    MaxDrops = 1

SPECIFICATION Spec

INVARIANT BubblesSurviveReconnect

\* Asks and connections are bounded, and a client need not come back.
CHECK_DEADLOCK FALSE
